---- MODULE Spec2Model ----
(***************************************************************************)
(* Model of the batch proposal review endpoint (POST /api/review) and of   *)
(* the helpers it calls: the file parser, the archive expander, the JSON   *)
(* extraction chain and the response normalizer.                           *)
(*                                                                         *)
(* Strings are TLA+ strings; a character is a string of length one.        *)
(* JSON values are tagged records:                                         *)
(*   [t |-> "null"], [t |-> "bool", v |-> TRUE], [t |-> "num", v |-> 3],   *)
(*   [t |-> "str", v |-> "abc"], [t |-> "arr", v |-> <<values>>],          *)
(*   [t |-> "obj", v |-> <<[k |-> key, v |-> value], ...>>]                *)
(* and [t |-> "undefined"] stands for JavaScript's undefined (a property   *)
(* that is absent).                                                        *)
(***************************************************************************)
EXTENDS Integers, Sequences, FiniteSets, TLC

(***************************************************************************)
(* String helpers (JavaScript String methods used by the source).          *)
(***************************************************************************)
\* The character at position i (1-based); "" outside the string, as s[i] is undefined.
Ch(s, i) == IF i >= 1 /\ i <= Len(s) THEN SubSeq(s, i, i) ELSE ""

\* Characters matched by the regular expression class \s and stripped by trim().
IsSpace(c) == c \in {" ", "\t", "\n", "\r", "\f"}

SetMin(S) == CHOOSE m \in S : \A n \in S : m <= n
SetMax(S) == CHOOSE m \in S : \A n \in S : m >= n

\* The first position from i on whose character is one of chars; Len(s) + 1 when
\* there is none.  The scanners below copy the run before it in one step.
FirstOf(s, i, chars) ==
  LET hits == {j \in i..Len(s) : Ch(s, j) \in chars}
  IN  IF hits = {} THEN Len(s) + 1 ELSE SetMin(hits)

\* String.prototype.trim
Trim(s) ==
  LET keep == {i \in 1..Len(s) : ~IsSpace(Ch(s, i))}
  IN  IF keep = {} THEN "" ELSE SubSeq(s, SetMin(keep), SetMax(keep))

UpperChars == <<"A","B","C","D","E","F","G","H","I","J","K","L","M",
                "N","O","P","Q","R","S","T","U","V","W","X","Y","Z">>
LowerChars == <<"a","b","c","d","e","f","g","h","i","j","k","l","m",
                "n","o","p","q","r","s","t","u","v","w","x","y","z">>

LowerChar(c) ==
  LET hit == {i \in 1..Len(UpperChars) : UpperChars[i] = c}
  IN  IF hit = {} THEN c ELSE LowerChars[CHOOSE i \in hit : TRUE]

RECURSIVE ToLowerFrom(_, _)
ToLowerFrom(s, i) ==
  LET mid == (i + Len(s)) \div 2
  IN  IF i > Len(s) THEN ""
      ELSE IF i = Len(s) THEN LowerChar(Ch(s, i))
      ELSE ToLowerFrom(SubSeq(s, i, mid), 1) \o ToLowerFrom(SubSeq(s, mid + 1, Len(s)), 1)

\* String.prototype.toLowerCase
ToLower(s) == ToLowerFrom(s, 1)

\* String.prototype.indexOf / lastIndexOf, 1-based; 0 when absent (-1 in JS).
OccurrencesOf(s, sub) ==
  {i \in 1..(Len(s) - Len(sub) + 1) : SubSeq(s, i, i + Len(sub) - 1) = sub}
IndexOf(s, sub) == IF OccurrencesOf(s, sub) = {} THEN 0 ELSE SetMin(OccurrencesOf(s, sub))
LastIndexOf(s, sub) == IF OccurrencesOf(s, sub) = {} THEN 0 ELSE SetMax(OccurrencesOf(s, sub))

\* String.prototype.includes / endsWith
Includes(s, sub) == sub = "" \/ OccurrencesOf(s, sub) # {}
EndsWith(s, sub) ==
  Len(sub) <= Len(s) /\ SubSeq(s, Len(s) - Len(sub) + 1, Len(s)) = sub

\* text.split(/\s+/): the pieces between maximal runs of whitespace, the
\* empty piece before a leading run and after a trailing run included.
RECURSIVE SplitFrom(_, _, _)
SplitFrom(s, i, cur) ==
  LET Word(end) == SplitFrom(s, end, cur \o SubSeq(s, i, end - 1))
  IN  IF i > Len(s) THEN <<cur>>
      ELSE IF IsSpace(Ch(s, i))
           THEN IF i > 1 /\ IsSpace(Ch(s, i - 1))
                THEN SplitFrom(s, i + 1, cur)
                ELSE <<cur>> \o SplitFrom(s, i + 1, "")
           ELSE Word(FirstOf(s, i, {" ", "\t", "\n", "\r", "\f"}))
SplitWhitespace(s) == SplitFrom(s, 1, "")

\* Array.prototype.filter(Boolean) on an array of strings
FilterNonEmpty(seq) == SelectSeq(seq, LAMBDA x : x # "")

\* parsed.text.split(/\s+/).filter(Boolean).length
CountWords(text) == Len(FilterNonEmpty(SplitWhitespace(text)))

(***************************************************************************)
(* JSON values.                                                            *)
(***************************************************************************)
Undefined == [t |-> "undefined"]
JNull == [t |-> "null"]
JBool(b) == [t |-> "bool", v |-> b]
JNum(n) == [t |-> "num", v |-> n]
JStr(s) == [t |-> "str", v |-> s]
JArr(items) == [t |-> "arr", v |-> items]
JObj(pairs) == [t |-> "obj", v |-> pairs]
KV(key, value) == [k |-> key, v |-> value]

\* typeof value === "string" / "object" (arrays and null are "object" too)
IsString(x) == x.t = "str"
TypeofObject(x) == x.t \in {"obj", "arr", "null"}
\* Array.isArray
IsArray(x) == x.t = "arr"

\* JavaScript truthiness of a value
Truthy(x) ==
  CASE x.t = "undefined" -> FALSE
    [] x.t = "null" -> FALSE
    [] x.t = "bool" -> x.v
    [] x.t = "num" -> x.v # 0
    [] x.t = "str" -> x.v # ""
    [] OTHER -> TRUE

\* Property read data[key]: the last pair with that key of an object (as
\* JSON.parse keeps the last duplicate); undefined otherwise.  The keys read
\* by the source are not own properties of arrays.
Get(x, key) ==
  IF x.t # "obj" THEN Undefined
  ELSE LET hit == {i \in 1..Len(x.v) : x.v[i].k = key}
       IN  IF hit = {} THEN Undefined ELSE x.v[SetMax(hit)].v

(***************************************************************************)
(* Response normalizer.                                                    *)
(***************************************************************************)
\* One element of the criteria array: <<criterion>>, or <<>> when it is dropped
\* A variant that keeps a blank name instead of defaulting it (ruled out by C7)
NormalizeCriterionKeepName(item) ==
  LET nameField == Get(item, "name")
      result == IF Get(item, "result") = JStr("pass") THEN "pass" ELSE "fail"
      explanationField == Get(item, "explanation")
  IN  IF ~Truthy(item) \/ ~TypeofObject(item) THEN <<>>
      ELSE <<[name |-> IF IsString(nameField) THEN Trim(nameField.v) ELSE "Unnamed criterion",
              result |-> result,
              explanation |-> IF IsString(explanationField) /\ Trim(explanationField.v) # ""
                              THEN Trim(explanationField.v)
                              ELSE "Criterion appears unmet or lacks evidence."]>>

\* A variant that takes any spelling of "pass" for a pass (ruled out by C27)
NormalizeCriterionAnyCase(item) ==
  LET nameField == Get(item, "name")
      name == IF IsString(nameField) THEN Trim(nameField.v) ELSE "Unnamed criterion"
      resultField == Get(item, "result")
      result == IF IsString(resultField) /\ ToLower(Trim(resultField.v)) = "pass"
                THEN "pass" ELSE "fail"
      explanationField == Get(item, "explanation")
      explanationRaw == IF IsString(explanationField) THEN explanationField.v ELSE ""
      explanation ==
        IF Trim(explanationRaw) # "" THEN Trim(explanationRaw)
        ELSE IF result = "pass" THEN "Criterion appears satisfied."
             ELSE "Criterion appears unmet or lacks evidence."
  IN  IF ~Truthy(item) \/ ~TypeofObject(item) THEN <<>>
      ELSE <<[name |-> IF name # "" THEN name ELSE "Unnamed criterion",
              result |-> result,
              explanation |-> explanation]>>

NormalizeCriterion(item) ==
  LET nameField == Get(item, "name")
      name == IF IsString(nameField) THEN Trim(nameField.v) ELSE "Unnamed criterion"
      result == IF Get(item, "result") = JStr("pass") THEN "pass" ELSE "fail"
      explanationField == Get(item, "explanation")
      explanationRaw == IF IsString(explanationField) THEN explanationField.v ELSE ""
      explanation ==
        IF Trim(explanationRaw) # "" THEN Trim(explanationRaw)
        ELSE IF result = "pass" THEN "Criterion appears satisfied."
             ELSE "Criterion appears unmet or lacks evidence."
  IN  IF ~Truthy(item) \/ ~TypeofObject(item) THEN <<>>
      ELSE <<[name |-> IF name # "" THEN name ELSE "Unnamed criterion",
              result |-> result,
              explanation |-> explanation]>>

RECURSIVE MapCriteria(_)
MapCriteria(items) ==
  IF items = <<>> THEN <<>>
  ELSE NormalizeCriterion(Head(items)) \o MapCriteria(Tail(items))

normalizeCriteria(criteria) ==
  IF ~IsArray(criteria) THEN <<>> ELSE MapCriteria(criteria.v)

\* A variant that keeps the blank elements (ruled out by C11)
RECURSIVE TrimmedStringsUnfiltered(_)
TrimmedStringsUnfiltered(items) ==
  IF items = <<>> THEN <<>>
  ELSE <<IF IsString(Head(items)) THEN Trim(Head(items).v) ELSE "">>
       \o TrimmedStringsUnfiltered(Tail(items))

\* (array as unknown[]).map(item => typeof item === "string" ? item.trim() : "").filter(Boolean)
RECURSIVE TrimmedStrings(_)
TrimmedStrings(items) ==
  IF items = <<>> THEN <<>>
  ELSE LET item == Head(items)
           mapped == IF IsString(item) THEN Trim(item.v) ELSE ""
       IN  (IF mapped # "" THEN <<mapped>> ELSE <<>>) \o TrimmedStrings(Tail(items))

\* data.overallVerdict === "pass" ? "pass" : "fail"
\* A variant that compares the verdict after trimming it (ruled out by C10)
OverallVerdictLenient(data) ==
  LET verdict == Get(data, "overallVerdict")
  IN  IF IsString(verdict) /\ Trim(verdict.v) = "pass" THEN "pass" ELSE "fail"

OverallVerdict(data) ==
  IF Get(data, "overallVerdict") = JStr("pass") THEN "pass" ELSE "fail"

\* A variant that takes any non-empty string untrimmed (ruled out by C8)
UntrimmedOrFallback(field, fallbackValue) ==
  IF IsString(field) /\ field.v # "" THEN field.v ELSE fallbackValue

\* typeof field === "string" && field.trim() ? field.trim() : fallbackValue
TrimmedOrFallback(field, fallbackValue) ==
  IF IsString(field) /\ Trim(field.v) # "" THEN Trim(field.v) ELSE fallbackValue

\* A variant that prefers the payload's wordCount (ruled out by C9)
ReviewWordCountFromModel(data, fallback) ==
  IF Get(data, "wordCount").t = "num" THEN Get(data, "wordCount").v ELSE fallback.wordCount

\* wordCount: fallback.wordCount
ReviewWordCount(data, fallback) == fallback.wordCount

normalizeReview(raw, fallback) ==
  IF ~Truthy(raw) \/ ~TypeofObject(raw)
  THEN [id |-> fallback.id,
        filename |-> fallback.filename,
        wordCount |-> fallback.wordCount,
        overallVerdict |-> "fail",
        overallFeedback |-> "The model returned an invalid response.",
        criteria |-> <<>>,
        notableStrengths |-> <<>>,
        recommendedImprovements |-> <<"Unable to parse review output.">>]
  ELSE
    LET data == raw
        overallVerdict == OverallVerdict(data)
        feedbackField == Get(data, "overallFeedback")
        overallFeedback ==
          IF IsString(feedbackField) /\ Len(Trim(feedbackField.v)) > 0
          THEN Trim(feedbackField.v)
          ELSE IF overallVerdict = "pass"
               THEN "Proposal meets rubric expectations."
               ELSE "Proposal does not satisfy all rubric requirements."
        strengthsField == Get(data, "notableStrengths")
        strengths == IF IsArray(strengthsField) THEN TrimmedStrings(strengthsField.v) ELSE <<>>
        improvementsField == Get(data, "recommendedImprovements")
        improvements ==
          IF IsArray(improvementsField) THEN TrimmedStrings(improvementsField.v) ELSE <<>>
        criteria == normalizeCriteria(Get(data, "criteria"))
    IN  [id |-> TrimmedOrFallback(Get(data, "id"), fallback.id),
         filename |-> TrimmedOrFallback(Get(data, "filename"), fallback.filename),
         wordCount |-> ReviewWordCount(data, fallback),
         overallVerdict |-> overallVerdict,
         overallFeedback |-> overallFeedback,
         criteria |-> criteria,
         notableStrengths |-> strengths,
         recommendedImprovements |->
           IF Len(improvements) > 0 THEN improvements
           ELSE IF overallVerdict = "pass"
                THEN <<"No immediate improvements recommended.">>
                ELSE <<"Address the failed criteria with specific evidence.">>]

(***************************************************************************)
(* File parser (lib/file-parser.ts).                                       *)
(*                                                                         *)
(* A buffer is a record [byteLength, readable, text, archive, entries]:    *)
(* text is what the format's extraction routine (pdf-parse, mammoth, UTF-8 *)
(* decoding) yields from it, readable is FALSE when that routine throws,   *)
(* archive tells whether JSZip can load it and entries are its entries.    *)
(***************************************************************************)
MAX_UPLOAD_BYTES == 5 * 1024 * 1024

Ok(value) == [ok |-> TRUE, value |-> value]
Throw(message) == [ok |-> FALSE, message |-> message]

\* text.replace(/\r\n?/g, "\n")
RECURSIVE NormalizeNewlinesFrom(_, _)
NormalizeNewlinesFrom(s, i) ==
  LET Plain(end) == SubSeq(s, i, end - 1) \o NormalizeNewlinesFrom(s, end)
  IN  IF i > Len(s) THEN ""
      ELSE IF Ch(s, i) = "\r"
           THEN "\n" \o NormalizeNewlinesFrom(s, IF Ch(s, i + 1) = "\n" THEN i + 2 ELSE i + 1)
           ELSE Plain(FirstOf(s, i, {"\r"}))

\* text.replace(/\n{3,}/g, "\n\n"); run is the length of the newline run that ends before i
RECURSIVE CollapseNewlinesFrom(_, _, _)
CollapseNewlinesFrom(s, i, run) ==
  LET Plain(end) == SubSeq(s, i, end - 1) \o CollapseNewlinesFrom(s, end, 0)
  IN  IF i > Len(s) THEN ""
      ELSE IF Ch(s, i) = "\n"
           THEN (IF run < 2 THEN "\n" ELSE "") \o CollapseNewlinesFrom(s, i + 1, run + 1)
           ELSE Plain(FirstOf(s, i, {"\n"}))

sanitizeText(text) ==
  Trim(CollapseNewlinesFrom(NormalizeNewlinesFrom(text, 1), 1, 0))

\* path.basename: the part after the last "/"
BaseName(p) == SubSeq(p, LastIndexOf(p, "/") + 1, Len(p))

\* path.extname: from the last "." of the basename to its end; "" when there
\* is none or when the only "." is the first character
ExtName(p) ==
  LET b == BaseName(p)
      dot == LastIndexOf(b, ".")
  IN  IF dot <= 1 THEN "" ELSE SubSeq(b, dot, Len(b))

\* Table lookups return "" where the JavaScript object has no such key.
MIME_TO_KIND(type) ==
  CASE type = "application/pdf" -> "pdf"
    [] type = "application/vnd.openxmlformats-officedocument.wordprocessingml.document" -> "docx"
    [] type = "application/octet-stream" -> "pdf"
    [] type = "text/plain" -> "txt"
    [] OTHER -> ""

EXTENSION_TO_KIND(ext) ==
  CASE ext = ".pdf" -> "pdf"
    [] ext = ".docx" -> "docx"
    [] ext = ".txt" -> "txt"
    [] OTHER -> ""

detectKind(filename, mimetype) ==
  LET normalizedType == ToLower(mimetype)
      extension == ToLower(ExtName(filename))
  IN  IF MIME_TO_KIND(normalizedType) # "" THEN MIME_TO_KIND(normalizedType)
      ELSE IF EXTENSION_TO_KIND(extension) # "" THEN EXTENSION_TO_KIND(extension)
      ELSE ""

\* A variant that also refuses a buffer of exactly the maximum size (ruled
\* out by C19)
parseProposalFileBelowLimit(buffer, filename, mimetype) ==
  IF buffer.byteLength = 0 THEN Throw("Uploaded file is empty")
  ELSE IF buffer.byteLength >= MAX_UPLOAD_BYTES THEN Throw("File size exceeds the 5MB limit")
  ELSE IF detectKind(filename, mimetype) = ""
  THEN Throw("Unsupported file type. Upload a PDF, DOCX, or TXT file")
  ELSE IF detectKind(filename, mimetype) \in {"pdf", "docx"} /\ ~buffer.readable
  THEN Throw("Invalid document structure")
  ELSE IF sanitizeText(buffer.text) = ""
  THEN Throw("No readable text found in the uploaded file")
  ELSE Ok([filename |-> filename, mimetype |-> mimetype, text |-> sanitizeText(buffer.text)])

parseProposalFile(buffer, filename, mimetype) ==
  IF buffer.byteLength = 0 THEN Throw("Uploaded file is empty")
  ELSE IF buffer.byteLength > MAX_UPLOAD_BYTES THEN Throw("File size exceeds the 5MB limit")
  ELSE
    LET kind == detectKind(filename, mimetype)
        clean == sanitizeText(buffer.text)
    IN  IF kind = "" THEN Throw("Unsupported file type. Upload a PDF, DOCX, or TXT file")
        ELSE IF kind \in {"pdf", "docx"} /\ ~buffer.readable
             THEN Throw("Invalid document structure")
        ELSE IF clean = "" THEN Throw("No readable text found in the uploaded file")
        ELSE Ok([filename |-> filename, mimetype |-> mimetype, text |-> clean])

(***************************************************************************)
(* Review route helpers (app/api/review/route.ts).                         *)
(***************************************************************************)
MAX_PROPOSALS == 12
MAX_PROPOSAL_TEXT_LENGTH == 12000
REVIEW_MODEL == "openai/gpt-5"

SUPPORTED_UPLOAD_TYPES ==
  {"application/pdf",
   "application/vnd.openxmlformats-officedocument.wordprocessingml.document",
   "application/zip",
   "application/x-zip-compressed",
   "multipart/x-zip"}

EXTENSION_TO_MIME(ext) ==
  CASE ext = ".pdf" -> "application/pdf"
    [] ext = ".docx" -> "application/vnd.openxmlformats-officedocument.wordprocessingml.document"
    [] OTHER -> ""

\* A variant that also marks a text of exactly the limit as truncated (ruled
\* out by C20)
truncateContentBelowLimit(text, limit) ==
  IF Len(text) < limit THEN text
  ELSE SubSeq(text, 1, limit) \o "\n\n[Excerpt truncated to stay within token limits]"

truncateContent(text, limit) ==
  IF Len(text) <= limit THEN text
  ELSE SubSeq(text, 1, limit) \o "\n\n[Excerpt truncated to stay within token limits]"

detectZip(file) ==
  \/ file.type = "application/zip"
  \/ file.type = "application/x-zip-compressed"
  \/ EndsWith(ToLower(file.name), ".zip")

deriveMimeFromExtension(filename) == EXTENSION_TO_MIME(ToLower(ExtName(filename)))

\* A variant that keeps the entry's path as the file name (ruled out by C18)
RECURSIVE ZipFilesFullPath(_)
ZipFilesFullPath(entries) ==
  IF entries = <<>> THEN <<>>
  ELSE (IF Head(entries).dir \/ deriveMimeFromExtension(Head(entries).name) = "" THEN <<>>
        ELSE <<[filename |-> Head(entries).name,
                buffer |-> Head(entries).buffer,
                mimetype |-> deriveMimeFromExtension(Head(entries).name)]>>)
       \o ZipFilesFullPath(Tail(entries))

RECURSIVE ZipFiles(_)
ZipFiles(entries) ==
  IF entries = <<>> THEN <<>>
  ELSE LET entry == Head(entries)
           mimetype == deriveMimeFromExtension(entry.name)
       IN  (IF entry.dir \/ mimetype = "" THEN <<>>
            ELSE <<[filename |-> BaseName(entry.name),
                    buffer |-> entry.buffer,
                    mimetype |-> mimetype]>>)
           \o ZipFiles(Tail(entries))

extractFromZip(buffer) ==
  IF ~buffer.archive THEN Throw("Can't find end of central directory : is this a zip file ?")
  ELSE Ok(ZipFiles(buffer.entries))

\* Decimal rendering of a natural number in a template literal
Digits == <<"0", "1", "2", "3", "4", "5", "6", "7", "8", "9">>
RECURSIVE ToDecimal(_)
ToDecimal(n) ==
  IF n < 10 THEN Digits[n + 1] ELSE ToDecimal(n \div 10) \o Digits[(n % 10) + 1]

\* The user message of a proposal's review request
createUserPrompt(rubricText, submissionContext, proposal) ==
  "Evaluate this proposal against the rubric and submission context.\n\n"
    \o "Rubric (binary criteria):\n\"\"\"\n" \o rubricText \o "\n\"\"\"\n\n"
    \o "Submission context supplied by the user:\n\"\"\"\n"
    \o (IF Len(Trim(submissionContext)) > 0 THEN submissionContext
        ELSE "(No additional context provided)")
    \o "\n\"\"\"\n\n"
    \o "Proposal metadata:\n- Identifier: " \o proposal.id
    \o "\n- Filename: " \o proposal.filename
    \o "\n- Word count: " \o ToDecimal(proposal.wordCount) \o "\n\n"
    \o "Extracted proposal text (may be truncated):\n\"\"\"\n"
    \o truncateContent(proposal.text, MAX_PROPOSAL_TEXT_LENGTH)
    \o "\n\"\"\"\n\n"
    \o "Return JSON shaped as:\n{\n  \"id\": \"" \o proposal.id
    \o "\",\n  \"filename\": \"" \o proposal.filename
    \o "\",\n  \"overallVerdict\": \"pass\" | \"fail\",\n"
    \o "  \"overallFeedback\": \"1-2 sentence synthesis referencing the rubric\",\n"
    \o "  \"criteria\": [\n    { \"name\": \"criterion title\", \"result\": \"pass\" | \"fail\", "
    \o "\"explanation\": \"1-2 sentences\" }\n  ],\n"
    \o "  \"notableStrengths\": [\"...\"],\n  \"recommendedImprovements\": [\"...\"]\n}\n\n"
    \o "Respond with JSON only."

\* index is the 0-based position of the file in collectedFiles
toParsedProposal(file, index) ==
  LET parsed == parseProposalFile(file.buffer, file.filename, file.mimetype)
  IN  IF ~parsed.ok THEN parsed
      ELSE Ok([id |-> "proposal-" \o ToDecimal(index + 1),
               filename |-> parsed.value.filename,
               mimetype |-> parsed.value.mimetype,
               text |-> parsed.value.text,
               wordCount |-> CountWords(parsed.value.text)])

(***************************************************************************)
(* JSON text.  JsonParse is JSON.parse on the JSON subset the inputs use:  *)
(* objects, arrays, strings with the escapes \" \\ \/ \n \t \r, integers   *)
(* and the three literals.  A parse result is [ok, val, pos] (pos: the     *)
(* position after the value) or [ok |-> FALSE, pos] (pos: where it failed).*)
(***************************************************************************)
JsonWs == {" ", "\t", "\n", "\r"}
DigitChars == {"0", "1", "2", "3", "4", "5", "6", "7", "8", "9"}

POk(val, pos) == [ok |-> TRUE, val |-> val, pos |-> pos]
PFail(pos) == [ok |-> FALSE, pos |-> pos]

SkipWs(s, i) ==
  LET rest == {j \in i..Len(s) : Ch(s, j) \notin JsonWs}
  IN  IF rest = {} THEN Len(s) + 1 ELSE SetMin(rest)

Unescape(c) ==
  CASE c = "n" -> "\n"
    [] c = "t" -> "\t"
    [] c = "r" -> "\r"
    [] OTHER -> c

\* i: the position after the opening quote
RECURSIVE ScanString(_, _, _)
ScanString(s, i, acc) ==
  LET c == Ch(s, i)
      Plain(end) == ScanString(s, end, acc \o SubSeq(s, i, end - 1))
  IN  IF i > Len(s) THEN PFail(i)
      ELSE IF c = "\"" THEN POk(JStr(acc), i + 1)
      ELSE IF c = "\\"
           THEN IF Ch(s, i + 1) \in {"\"", "\\", "/", "n", "t", "r"}
                THEN ScanString(s, i + 2, acc \o Unescape(Ch(s, i + 1)))
                ELSE PFail(i + 1)
      ELSE IF c \in {"\n", "\t", "\r"} THEN PFail(i)
      ELSE Plain(FirstOf(s, i, {"\"", "\\", "\n", "\t", "\r"}))

DigitValue(c) == CHOOSE d \in 0..9 : Digits[d + 1] = c

RECURSIVE ScanDigits(_, _, _)
ScanDigits(s, i, acc) ==
  IF Ch(s, i) \in DigitChars THEN ScanDigits(s, i + 1, 10 * acc + DigitValue(Ch(s, i)))
  ELSE [val |-> acc, pos |-> i]

\* i: the position of the first character ("-" or a digit)
ScanNumber(s, i) ==
  LET Number(neg, start, d) ==
        IF Ch(s, start) \notin DigitChars THEN PFail(start)
        ELSE IF Ch(s, start) = "0" /\ d.pos > start + 1 THEN PFail(start + 1)
        ELSE IF Ch(s, d.pos) \in {".", "e", "E"} THEN PFail(d.pos)
        ELSE POk(JNum(IF neg THEN 0 - d.val ELSE d.val), d.pos)
      From(neg, start) == Number(neg, start, ScanDigits(s, start, 0))
      Sign(neg) == From(neg, IF neg THEN i + 1 ELSE i)
  IN  Sign(Ch(s, i) = "-")

RECURSIVE ParseValue(_, _)
RECURSIVE ParseElements(_, _, _)
RECURSIVE ParseMembers(_, _, _)

ParseValue(s, i0) ==
  LET At(i, c) ==
        IF i > Len(s) THEN PFail(i)
        ELSE IF c = "{" THEN ParseMembers(s, i + 1, <<>>)
        ELSE IF c = "[" THEN ParseElements(s, i + 1, <<>>)
        ELSE IF c = "\"" THEN ScanString(s, i + 1, "")
        ELSE IF c = "-" \/ c \in DigitChars THEN ScanNumber(s, i)
        ELSE IF i + 3 <= Len(s) /\ SubSeq(s, i, i + 3) = "true" THEN POk(JBool(TRUE), i + 4)
        ELSE IF i + 4 <= Len(s) /\ SubSeq(s, i, i + 4) = "false" THEN POk(JBool(FALSE), i + 5)
        ELSE IF i + 3 <= Len(s) /\ SubSeq(s, i, i + 3) = "null" THEN POk(JNull, i + 4)
        ELSE PFail(i)
      From(i) == At(i, Ch(s, i))
  IN  From(SkipWs(s, i0))

\* i0: the position after "[" (acc empty) or after a "," (acc not empty).
\* One element is read per step: the step ends the array (Done) or goes on
\* after the element (More).
ParseElements(s, i0, acc) ==
  LET
      More(j, items) == [more |-> TRUE, pos |-> j, acc |-> items]
      Done(r) == [more |-> FALSE, result |-> r]
      After(v, j) ==
        IF ~v.ok THEN Done(v)
        ELSE IF Ch(s, j) = "," THEN More(j + 1, Append(acc, v.val))
        ELSE IF Ch(s, j) = "]" THEN Done(POk(JArr(Append(acc, v.val)), j + 1))
        ELSE Done(PFail(j))
      Element(v) == After(v, SkipWs(s, v.pos))
      At(i) == IF acc = <<>> /\ Ch(s, i) = "]" THEN Done(POk(JArr(acc), i + 1))
               ELSE Element(ParseValue(s, i))
      Loop(step) == IF step.more THEN ParseElements(s, step.pos, step.acc) ELSE step.result
  IN  Loop(At(SkipWs(s, i0)))

\* i0: the position after "{" (acc empty) or after a "," (acc not empty).
\* One member is read per step.
ParseMembers(s, i0, acc) ==
  LET
      More(j, items) == [more |-> TRUE, pos |-> j, acc |-> items]
      Done(r) == [more |-> FALSE, result |-> r]
      After(key, v, j) ==
        IF ~v.ok THEN Done(v)
        ELSE IF Ch(s, j) = "," THEN More(j + 1, Append(acc, KV(key.val.v, v.val)))
        ELSE IF Ch(s, j) = "}" THEN Done(POk(JObj(Append(acc, KV(key.val.v, v.val))), j + 1))
        ELSE Done(PFail(j))
      Value(key, v) == After(key, v, SkipWs(s, v.pos))
      Colon(key, colon) ==
        IF ~key.ok THEN Done(key)
        ELSE IF Ch(s, colon) # ":" THEN Done(PFail(colon))
        ELSE Value(key, ParseValue(s, colon + 1))
      Key(key) == Colon(key, SkipWs(s, key.pos))
      At(i) == IF acc = <<>> /\ Ch(s, i) = "}" THEN Done(POk(JObj(acc), i + 1))
               ELSE IF Ch(s, i) # "\"" THEN Done(PFail(i))
               ELSE Key(ScanString(s, i + 1, ""))
      Loop(step) == IF step.more THEN ParseMembers(s, step.pos, step.acc) ELSE step.result
  IN  Loop(At(SkipWs(s, i0)))

SyntaxErrorMessage(s, pos) ==
  IF pos > Len(s) THEN "Unexpected end of JSON input"
  ELSE "Unexpected token " \o Ch(s, pos) \o " in JSON at position " \o ToDecimal(pos - 1)

\* JSON.parse(text): Ok(value) or Throw(the SyntaxError's message)
JsonParse(text) ==
  LET End(v, end) ==
        IF ~v.ok THEN Throw(SyntaxErrorMessage(text, v.pos))
        ELSE IF end <= Len(text) THEN Throw(SyntaxErrorMessage(text, end))
        ELSE Ok(v.val)
      Value(v) == End(v, SkipWs(text, v.pos))
  IN  Value(ParseValue(text, 1))

(***************************************************************************)
(* jsonrepair(text) of the jsonrepair library, on the repairs the inputs   *)
(* need: unquoted keys, unquoted string values, single-quoted strings,     *)
(* trailing, leading and missing commas, missing colons, missing object    *)
(* values, missing closing quotes and brackets, redundant closing brackets *)
(* after the root value, and a sequence of root values separated by commas *)
(* or newlines (turned into an array).  Comments, function calls, regular  *)
(* expressions, Markdown fences and non-ASCII quotes are left out.         *)
(* A repair result is a parse result, or [ok |-> FALSE, thrown, pos]:      *)
(* thrown is FALSE when no value starts at pos, TRUE when the library      *)
(* throws.                                                                 *)
(***************************************************************************)
RNone(pos) == [ok |-> FALSE, thrown |-> FALSE, pos |-> pos]
RThrow(pos) == [ok |-> FALSE, thrown |-> TRUE, pos |-> pos]

RepairQuotes == {"\"", "'"}
UnquotedStringDelimiters == {",", "[", "]", "{", "}", "\n", "+", "/"}
WordChars ==
  {UpperChars[i] : i \in 1..Len(UpperChars)} \cup {LowerChars[i] : i \in 1..Len(LowerChars)}
    \cup DigitChars \cup {"_"}
\* isStartOfValue: /^[[{\w-]$/ or a quote
IsStartOfValue(c) == c \in WordChars \cup {"[", "{", "-"} \cup RepairQuotes

\* parseString: i is the position after the opening quote q; a missing end
\* quote is added at the end of the text
RECURSIVE RepairScanString(_, _, _, _)
RepairScanString(s, i, acc, q) ==
  LET c == Ch(s, i)
      Plain(end) == RepairScanString(s, end, acc \o SubSeq(s, i, end - 1), q)
  IN  IF i > Len(s) THEN POk(JStr(acc), i)
      ELSE IF c = q THEN POk(JStr(acc), i + 1)
      ELSE IF c = "\\" /\ i < Len(s)
           THEN RepairScanString(s, i + 2, acc \o Unescape(Ch(s, i + 1)), q)
      ELSE IF c = "\\" THEN RepairScanString(s, i + 1, acc \o c, q)
      ELSE Plain(FirstOf(s, i, {q, "\\"}))

\* parseUnquotedString: the text up to the next delimiter or quote (or colon
\* for a key), without its trailing whitespace
ScanUnquoted(s, i, isKey) ==
  LET stops == {j \in i..Len(s) :
                  \/ Ch(s, j) \in UnquotedStringDelimiters \cup RepairQuotes
                  \/ (isKey /\ Ch(s, j) = ":")}
      stop == IF stops = {} THEN Len(s) + 1 ELSE SetMin(stops)
      kept == {j \in i..(stop - 1) : Ch(s, j) \notin JsonWs}
      symbol == SubSeq(s, i, SetMax(kept))
  IN  IF kept = {} THEN RNone(i)
      ELSE POk(IF symbol = "undefined" THEN JNull ELSE JStr(symbol),
               IF Ch(s, SetMax(kept) + 1) = "\"" THEN SetMax(kept) + 2 ELSE SetMax(kept) + 1)

\* skip whitespace, an optional comma and the whitespace after it
SkipComma(s, i0) ==
  LET Skip(i1) == IF Ch(s, i1) = "," THEN SkipWs(s, i1 + 1) ELSE i1
  IN  Skip(SkipWs(s, i0))

RECURSIVE RepairValue(_, _)
RECURSIVE RepairElements(_, _, _)
RECURSIVE RepairMembers(_, _, _)

\* parseValue
RepairValue(s, i0) ==
  LET At(i, c, number) ==
        IF i > Len(s) THEN RNone(i)
        ELSE IF c = "{" THEN RepairMembers(s, i + 1, <<>>)
        ELSE IF c = "[" THEN RepairElements(s, i + 1, <<>>)
        ELSE IF c \in RepairQuotes THEN RepairScanString(s, i + 1, "", c)
        ELSE IF (c = "-" \/ c \in DigitChars) /\ number.ok
                  /\ (number.pos > Len(s)
                      \/ Ch(s, number.pos) \in UnquotedStringDelimiters \cup JsonWs \cup {":"})
             THEN number
        ELSE IF i + 3 <= Len(s) /\ SubSeq(s, i, i + 3) = "true" THEN POk(JBool(TRUE), i + 4)
        ELSE IF i + 4 <= Len(s) /\ SubSeq(s, i, i + 4) = "false" THEN POk(JBool(FALSE), i + 5)
        ELSE IF i + 3 <= Len(s) /\ SubSeq(s, i, i + 3) = "null" THEN POk(JNull, i + 4)
        ELSE ScanUnquoted(s, i, FALSE)
      From(i) == At(i, Ch(s, i), ScanNumber(s, i))
  IN  From(SkipWs(s, i0))

\* parseArray: i0 is the position after "[" or after an element; one turn of
\* its loop per step
RepairElements(s, i0, acc) ==
  LET
      More(j, items) == [more |-> TRUE, pos |-> j, acc |-> items]
      Done(r) == [more |-> FALSE, result |-> r]
      Element(i, v) ==
        IF i > Len(s) THEN Done(POk(JArr(acc), i))
        ELSE IF Ch(s, i) = "]" THEN Done(POk(JArr(acc), i + 1))
        ELSE IF v.ok THEN More(v.pos, Append(acc, v.val))
        ELSE IF v.thrown THEN Done(v)
        ELSE Done(POk(JArr(acc), i))
      At(i) == Element(i, RepairValue(s, i))
      Loop(step) == IF step.more THEN RepairElements(s, step.pos, step.acc) ELSE step.result
  IN  Loop(At(SkipComma(s, i0)))

\* parseObject: i0 is the position after "{" or after a member; one turn of
\* its loop per step
RepairMembers(s, i0, acc) ==
  LET
      More(j, items) == [more |-> TRUE, pos |-> j, acc |-> items]
      Done(r) == [more |-> FALSE, result |-> r]
      Member(i, key, k, processedColon, truncatedText, v) ==
        IF i > Len(s) THEN Done(POk(JObj(acc), i))
        ELSE IF Ch(s, i) = "}" THEN Done(POk(JObj(acc), i + 1))
        ELSE IF ~key.ok
             THEN IF Ch(s, i) \in {"{", "[", "]"} THEN Done(POk(JObj(acc), i))
                  ELSE Done(RThrow(i))
        ELSE IF key.val.t # "str" THEN Done(RThrow(i))
        ELSE IF ~processedColon /\ ~truncatedText /\ ~IsStartOfValue(Ch(s, k))
             THEN Done(RThrow(k))
        ELSE IF v.ok THEN More(v.pos, Append(acc, KV(key.val.v, v.val)))
        ELSE IF v.thrown THEN Done(v)
        ELSE IF processedColon \/ truncatedText
             THEN More(v.pos, Append(acc, KV(key.val.v, JNull)))
        ELSE Done(RThrow(v.pos))
      Colon(i, key, k, processedColon) ==
        Member(i, key, k, processedColon, k > Len(s),
               RepairValue(s, IF processedColon THEN k + 1 ELSE k))
      Key(i, key, k) == Colon(i, key, k, Ch(s, k) = ":")
      Start(i, key) == Key(i, key, SkipWs(s, key.pos))
      At(i) == Start(i, IF Ch(s, i) \in RepairQuotes
                        THEN RepairScanString(s, i + 1, "", Ch(s, i))
                        ELSE ScanUnquoted(s, i, TRUE))
      Loop(step) == IF step.more THEN RepairMembers(s, step.pos, step.acc) ELSE step.result
  IN  Loop(At(SkipComma(s, i0)))

\* parseNewlineDelimitedJSON: further root values, a comma between them optional
RECURSIVE RepairRootValues(_, _, _)
RepairRootValues(s, i0, acc) ==
  LET Element(i, v) ==
        IF v.ok THEN RepairRootValues(s, v.pos, Append(acc, v.val))
        ELSE IF v.thrown THEN v
        ELSE POk(JArr(acc), i)
      At(i) == Element(i, RepairValue(s, i))
  IN  At(SkipComma(s, i0))

\* the redundant closing brackets after the root value are skipped
RECURSIVE SkipClosers(_, _)
SkipClosers(s, i) ==
  IF Ch(s, i) \in {"}", "]"} THEN SkipClosers(s, SkipWs(s, i + 1)) ELSE i

\* text left after the result and its redundant closers is an error
RepairRootEnd(s, result) ==
  LET end == SkipClosers(s, SkipWs(s, result.pos))
  IN  IF ~result.ok THEN RThrow(result.pos)
      ELSE IF end <= Len(s) THEN RThrow(end)
      ELSE result

\* the root value, or the array of the root values that follow one another
\* after a comma or a newline
RepairRootMore(s, root, afterValue) ==
  LET processedComma == Ch(s, afterValue) = ","
      next == IF Ch(s, afterValue) = "," THEN SkipWs(s, afterValue + 1) ELSE afterValue
  IN  RepairRootEnd(s, IF IsStartOfValue(Ch(s, next))
                            /\ (processedComma
                                \/ \E j \in root.pos..(next - 1) :
                                     /\ Ch(s, j) = "\n"
                                     /\ \A m \in (j + 1)..(next - 1) : Ch(s, m) # "\n")
                       THEN RepairRootValues(s, next, <<root.val>>)
                       ELSE POk(root.val, next))

\* jsonrepair's main loop
RepairRoot(s) ==
  LET Root(root) ==
        IF ~root.ok THEN RThrow(root.pos) ELSE RepairRootMore(s, root, SkipWs(s, root.pos))
  IN  Root(RepairValue(s, 1))

\* JSON.stringify of a string: quotes, backslashes and control characters escaped
RECURSIVE EscapeFrom(_, _)
EscapeFrom(s, i) ==
  LET c == Ch(s, i)
      Plain(end) == SubSeq(s, i, end - 1) \o EscapeFrom(s, end)
  IN  IF i > Len(s) THEN ""
      ELSE CASE c = "\"" -> "\\\"" \o EscapeFrom(s, i + 1)
             [] c = "\\" -> "\\\\" \o EscapeFrom(s, i + 1)
             [] c = "\n" -> "\\n" \o EscapeFrom(s, i + 1)
             [] c = "\t" -> "\\t" \o EscapeFrom(s, i + 1)
             [] c = "\r" -> "\\r" \o EscapeFrom(s, i + 1)
             [] OTHER -> Plain(FirstOf(s, i, {"\"", "\\", "\n", "\t", "\r"}))
QuoteString(s) == "\"" \o EscapeFrom(s, 1) \o "\""

\* The JSON text jsonrepair writes for a repaired value
RECURSIVE Stringify(_)
RECURSIVE StringifyItems(_)
RECURSIVE StringifyPairs(_)
Stringify(x) ==
  CASE x.t = "null" -> "null"
    [] x.t = "bool" -> IF x.v THEN "true" ELSE "false"
    [] x.t = "num" -> IF x.v < 0 THEN "-" \o ToDecimal(0 - x.v) ELSE ToDecimal(x.v)
    [] x.t = "str" -> QuoteString(x.v)
    [] x.t = "arr" -> "[" \o StringifyItems(x.v) \o "]"
    [] x.t = "obj" -> "{" \o StringifyPairs(x.v) \o "}"
\* the elements, separated by commas: the two halves of the array joined
StringifyItems(items) ==
  LET half == Len(items) \div 2
  IN  IF items = <<>> THEN ""
      ELSE IF Len(items) = 1 THEN Stringify(items[1])
      ELSE StringifyItems(SubSeq(items, 1, half)) \o ","
             \o StringifyItems(SubSeq(items, half + 1, Len(items)))
StringifyPairs(pairs) ==
  LET half == Len(pairs) \div 2
  IN  IF pairs = <<>> THEN ""
      ELSE IF Len(pairs) = 1 THEN QuoteString(pairs[1].k) \o ":" \o Stringify(pairs[1].v)
      ELSE StringifyPairs(SubSeq(pairs, 1, half)) \o ","
             \o StringifyPairs(SubSeq(pairs, half + 1, Len(pairs)))

\* A variant that returns its input unrepaired (ruled out by C13)
jsonrepairVerbatim(raw) == Ok(raw)

\* jsonrepair(raw): Ok(the repaired text) or Throw(message)
jsonrepair(raw) ==
  LET Text(r) ==
        IF r.ok THEN Ok(Stringify(r.val))
        ELSE Throw(IF r.pos > Len(raw) THEN "Unexpected end of json string"
                   ELSE "Unexpected character " \o QuoteString(Ch(raw, r.pos)))
  IN  Text(RepairRoot(raw))

\* A variant that tries the text between the braces before the repair (ruled
\* out by C26)
extractJsonBracesFirst(raw) ==
  LET Repaired(primary, repaired) ==
        IF repaired.ok /\ JsonParse(repaired.value).ok THEN JsonParse(repaired.value)
        ELSE Throw(primary.message)
      Candidate(primary, extractedCandidate) ==
        IF extractedCandidate.ok THEN extractedCandidate
        ELSE Repaired(primary, jsonrepair(raw))
      Braces(primary, start, end) ==
        IF start # 0 /\ end # 0 /\ end > start
        THEN Candidate(primary, JsonParse(SubSeq(raw, start, end)))
        ELSE Repaired(primary, jsonrepair(raw))
      Primary(primary) ==
        IF primary.ok THEN primary
        ELSE Braces(primary, IndexOf(raw, "{"), LastIndexOf(raw, "}"))
  IN  Primary(JsonParse(raw))

\* A variant that answers null when the strict parse fails (ruled out by C12)
extractJsonOrNull(raw) ==
  LET Primary(primary) == IF primary.ok THEN primary ELSE Ok(JNull)
  IN  Primary(JsonParse(raw))

\* extractJson (route.ts): strict parse, then repair and parse, then the text
\* from the first "{" to the last "}"; the first parse error when all fail
extractJson(raw) ==
  LET Candidate(primary, extractedCandidate) ==
        IF extractedCandidate.ok THEN extractedCandidate ELSE Throw(primary.message)
      Braces(primary, start, end) ==
        IF start # 0 /\ end # 0 /\ end > start
        THEN Candidate(primary, JsonParse(SubSeq(raw, start, end)))
        ELSE Throw(primary.message)
      Reparsed(primary, reparsed) ==
        IF reparsed.ok THEN reparsed
        ELSE Braces(primary, IndexOf(raw, "{"), LastIndexOf(raw, "}"))
      Primary(primary, repaired) ==
        IF primary.ok THEN primary
        ELSE Reparsed(primary, IF repaired.ok THEN JsonParse(repaired.value) ELSE repaired)
  IN  Primary(JsonParse(raw), jsonrepair(raw))

(***************************************************************************)
(* One per-document review task: the body of the async callback mapped     *)
(* over parsedProposals, from the settled createChatCompletion call to the *)
(* value the callback returns.  A completion is what the call settles      *)
(* with: [kind |-> "reject", message] when it throws, or                   *)
(* [kind |-> "resolve", payload] with the JSON body of the provider's      *)
(* response.                                                               *)
(***************************************************************************)
Nullish(x) == x.t \in {"undefined", "null"}

\* ${value} in a template literal, for the values that reach it
ToText(x) ==
  CASE x.t = "str" -> x.v
    [] x.t = "num" -> IF x.v < 0 THEN "-" \o ToDecimal(0 - x.v) ELSE ToDecimal(x.v)
    [] x.t = "bool" -> IF x.v THEN "true" ELSE "false"
    [] x.t = "null" -> "null"
    [] x.t = "undefined" -> "undefined"
    [] OTHER -> "[object Object]"

\* The message of the error thrown when the completion carries no usable content
EmptyResponseMessage(completion, finishReason) ==
  LET err == Get(completion, "error")
      generic == "Model returned an empty response (model: " \o REVIEW_MODEL \o ")"
  IN  IF finishReason = JStr("content_filter")
      THEN "Content was filtered by the model (model: " \o REVIEW_MODEL
             \o "). The proposal may contain flagged content."
      ELSE IF finishReason = JStr("length")
      THEN "Response was cut off due to length limits (model: " \o REVIEW_MODEL
             \o "). Try reducing proposal size."
      ELSE IF Truthy(err)
      THEN "Model error: "
             \o (IF Truthy(Get(err, "message")) THEN ToText(Get(err, "message"))
                 ELSE IF Truthy(Get(err, "code")) THEN ToText(Get(err, "code"))
                 ELSE "Unknown error")
      ELSE IF Truthy(finishReason)
      THEN generic \o ". Finish reason: " \o ToText(finishReason)
      ELSE generic

\* The try block: Ok(review) or Throw(message)
ReviewAttempt(proposal, completion) ==
  IF completion.kind = "reject" THEN Throw(completion.message)
  ELSE
    LET choices == Get(completion.payload, "choices")
        choice == IF IsArray(choices) /\ Len(choices.v) > 0 THEN choices.v[1] ELSE Undefined
        message == Get(choice, "message")
        parsedField == Get(message, "parsed")
        parsedPayload == IF Nullish(parsedField) THEN JNull ELSE parsedField
        contentField == Get(message, "content")
        content == IF IsString(contentField) THEN contentField.v ELSE ""
        finishReason == Get(choice, "finish_reason")
        FromContent(extracted) ==
          IF ~extracted.ok THEN extracted ELSE Ok(normalizeReview(extracted.value, proposal))
    IN  IF Nullish(choices)
        THEN Throw("Cannot read properties of undefined (reading '0')")
        ELSE IF ~Truthy(parsedPayload) /\ content = ""
        THEN Throw(EmptyResponseMessage(completion.payload, finishReason))
        ELSE IF ~Nullish(parsedPayload) THEN Ok(normalizeReview(parsedPayload, proposal))
        ELSE FromContent(extractJson(content))

\* The catch block's message
CatchMessage(message) ==
  IF Includes(ToLower(message), "invalid model") \/ Includes(message, "not a valid model ID")
  THEN message \o ". Update OPENROUTER_REVIEW_MODEL to a supported model."
  ELSE message

\* What the callback resolves with: {review} or {error}
ReviewTask(proposal, completion) ==
  LET Settled(attempt) ==
        IF attempt.ok THEN [review |-> attempt.value]
        ELSE [error |-> [filename |-> proposal.filename,
                         message |-> CatchMessage(attempt.message)]]
  IN  Settled(ReviewAttempt(proposal, completion))

\* The loop over formData.getAll("files"): the collected files, or the reason
\* the request ends inside the loop
RECURSIVE CollectFiles(_, _)
CollectFiles(files, acc) ==
  IF files = <<>> THEN [kind |-> "collected", files |-> acc]
  ELSE
    LET entry == Head(files)
        extensionMime == deriveMimeFromExtension(entry.name)
        extracted == extractFromZip(entry.buffer)
    IN  IF ~entry.isFile THEN CollectFiles(Tail(files), acc)
        ELSE IF entry.type \notin SUPPORTED_UPLOAD_TYPES /\ ~detectZip(entry) /\ extensionMime = ""
        THEN [kind |-> "unsupported", name |-> entry.name]
        ELSE IF detectZip(entry)
        THEN IF extracted.ok THEN CollectFiles(Tail(files), acc \o extracted.value)
             ELSE [kind |-> "thrown", message |-> extracted.message]
        ELSE CollectFiles(Tail(files),
               Append(acc, [filename |-> entry.name,
                            buffer |-> entry.buffer,
                            mimetype |-> IF extensionMime # "" THEN extensionMime
                                         ELSE entry.type]))

\* NextResponse.json(body, {status})
Json(status, body) == [status |-> status, body |-> body]
NoResponse == [status |-> 0]

\* settled.map(r => r.review).filter(Boolean) and settled.map(r => r.error).filter(Boolean)
RECURSIVE ReviewsOf(_)
ReviewsOf(settled) ==
  IF settled = <<>> THEN <<>>
  ELSE (IF "review" \in DOMAIN Head(settled) THEN <<Head(settled).review>> ELSE <<>>)
       \o ReviewsOf(Tail(settled))
RECURSIVE ErrorsOf(_)
ErrorsOf(settled) ==
  IF settled = <<>> THEN <<>>
  ELSE (IF "error" \in DOMAIN Head(settled) THEN <<Head(settled).error>> ELSE <<>>)
       \o ErrorsOf(Tail(settled))

\* A variant that fails the whole batch on any error (ruled out by C3)
BatchResponseFailFast(settled) ==
  IF Len(ErrorsOf(settled)) > 0
  THEN Json(502, [error |-> "All proposal reviews failed", details |-> ErrorsOf(settled)])
  ELSE Json(200, [reviews |-> ReviewsOf(settled)])

\* A variant that reports a batch without reviews as a success (ruled out by C4)
BatchResponseEmptySuccess(settled) ==
  IF Len(ErrorsOf(settled)) > 0
  THEN Json(200, [reviews |-> ReviewsOf(settled), errors |-> ErrorsOf(settled)])
  ELSE Json(200, [reviews |-> ReviewsOf(settled)])

\* A variant that lists the reviews and the errors last document first (ruled
\* out by C28)
BatchResponseReversed(settled) ==
  LET Reversed(s) == [k \in 1..Len(s) |-> s[Len(s) + 1 - k]]
      reviews == Reversed(ReviewsOf(settled))
      errors == Reversed(ErrorsOf(settled))
  IN  IF Len(reviews) = 0
      THEN Json(502, [error |-> "All proposal reviews failed", details |-> errors])
      ELSE IF Len(errors) > 0 THEN Json(200, [reviews |-> reviews, errors |-> errors])
      ELSE Json(200, [reviews |-> reviews])

\* The response built once every review task has settled
BatchResponse(settled) ==
  LET reviews == ReviewsOf(settled)
      errors == ErrorsOf(settled)
  IN  IF Len(reviews) = 0
      THEN Json(502, [error |-> "All proposal reviews failed", details |-> errors])
      ELSE IF Len(errors) > 0 THEN Json(200, [reviews |-> reviews, errors |-> errors])
      ELSE Json(200, [reviews |-> reviews])

\* A variant that already rejects a batch of MAX_PROPOSALS (ruled out by C5)
TooManyProposalsInclusive(files) == Len(files) >= MAX_PROPOSALS

\* The batch-size check
TooManyProposals(files) == Len(files) > MAX_PROPOSALS

(***************************************************************************)
(* Inputs.                                                                 *)
(***************************************************************************)
\* The number of entries of the "files" form field in the small requests
MaxFiles == 2

Buffer(byteLength, text) ==
  [byteLength |-> byteLength, readable |-> TRUE, text |-> text,
   archive |-> FALSE, entries |-> <<>>]
Archive(entries) ==
  [byteLength |-> 2048, readable |-> FALSE, text |-> "",
   archive |-> TRUE, entries |-> entries]
Upload(name, type, buffer) == [isFile |-> TRUE, name |-> name, type |-> type, buffer |-> buffer]
ZipEntry(name, dir, buffer) == [name |-> name, dir |-> dir, buffer |-> buffer]

DocxMime == "application/vnd.openxmlformats-officedocument.wordprocessingml.document"

GoodPdf == Upload("budget.pdf", "application/pdf",
                  Buffer(4096, "We request $50,000 for materials.\r\n"))
BlankPdf == Upload("blank.pdf", "application/pdf", Buffer(512, " \r\n\n\t "))
EmptyDocx == Upload("empty.docx", DocxMime, Buffer(0, ""))
HugePdf == Upload("huge.PDF", "", Buffer(MAX_UPLOAD_BYTES + 1, "Too large to read"))
LimitDocx == Upload("plan.docx", DocxMime,
                    Buffer(MAX_UPLOAD_BYTES, "Phase one\n\n\n\nPhase  two"))
NotesTxt == Upload("notes.txt", "text/plain", Buffer(64, "Some notes"))
ScanBin == Upload("scan.bin", "multipart/x-zip", Buffer(64, "binary"))
FormString == [isFile |-> FALSE, name |-> "", type |-> "", buffer |-> Buffer(0, "")]
BundleZip ==
  Upload("bundle.ZIP", "application/octet-stream",
         Archive(<<ZipEntry("docs/", TRUE, Buffer(0, "")),
                   ZipEntry("docs/Team Plan.PDF", FALSE, Buffer(900, "Alpha beta\rgamma")),
                   ZipEntry("README.txt", FALSE, Buffer(20, "read me"))>>))
AssetsZip ==
  Upload("assets.zip", "application/zip",
         Archive(<<ZipEntry("logo.jpg", FALSE, Buffer(20, "")),
                   ZipEntry("notes.txt", FALSE, Buffer(20, "notes"))>>))
BrokenZip ==
  Upload("broken.zip", "application/x-zip-compressed",
         [byteLength |-> 10, readable |-> FALSE, text |-> "", archive |-> FALSE,
          entries |-> <<>>])

UploadSamples ==
  {GoodPdf, LimitDocx, BlankPdf, HugePdf, NotesTxt, FormString, BundleZip, BrokenZip}

\* Uploads whose handling does not depend on their neighbours
EdgeFileLists ==
  {<<EmptyDocx>>, <<ScanBin>>, <<AssetsZip>>, <<GoodPdf, EmptyDocx>>, <<AssetsZip, LimitDocx>>}

\* An archive of n proposals
ZipOf(n) ==
  Upload("batch.zip", "application/zip",
         Archive([i \in 1..n |->
                    ZipEntry("batch/p" \o ToDecimal(i) \o ".pdf", FALSE,
                             Buffer(100, "Proposal " \o ToDecimal(i)))]))

RubricSamples == {JNull, JStr("  \n"), JStr(" Criterion: Clear budget (weight 100) ")}

FileLists == UNION {[1..n -> UploadSamples] : n \in 0..MaxFiles}

\* Requests around the batch ceiling
LargeFileLists ==
  {<<ZipOf(MAX_PROPOSALS - 1), GoodPdf>>,
   <<ZipOf(MAX_PROPOSALS + 1)>>,
   <<GoodPdf, ZipOf(MAX_PROPOSALS - 1), LimitDocx>>,
   <<BlankPdf, GoodPdf>>}

Request(wellFormed, rubricText, files) ==
  [wellFormed |-> wellFormed, rubricText |-> rubricText,
   submissionContext |-> JStr(""), files |-> files]

\* Provider responses
Choice(message, finishReason) ==
  JObj(<<KV("message", message), KV("finish_reason", finishReason)>>)
Completion(choices) == [kind |-> "resolve", payload |-> JObj(<<KV("id", JStr("gen-1")), KV("choices", JArr(choices))>>)]
Rejection(message) == [kind |-> "reject", message |-> message]

\* A schema-conformant review of a proposal that echoes the given id
ReviewPayload(id, verdict) ==
  JObj(<<KV("id", JStr(id)),
         KV("filename", JStr("budget.pdf")),
         KV("wordCount", JNum(999)),
         KV("overallVerdict", JStr(verdict)),
         KV("overallFeedback", JStr("Budget amount stated.")),
         KV("criteria", JArr(<<JObj(<<KV("name", JStr("Clear budget")),
                                      KV("result", JStr(verdict)),
                                      KV("explanation", JStr("Budget amount stated."))>>)>>)),
         KV("notableStrengths", JArr(<<>>)),
         KV("recommendedImprovements", JArr(<<>>))>>)

RepairableContent ==
  "{overallVerdict: \"fail\", criteria: [{name: \"X\", result: \"fail\", explanation: \"Missing detail\",}]}"

Answer(message) == Completion(<<Choice(message, JStr("stop"))>>)

EmptyAnswer(finishReason) == Completion(<<Choice(JObj(<<KV("content", JNull)>>), finishReason)>>)

CompletionSamples ==
  {Rejection("OpenRouter request failed: 400 Bad Request - x is not a valid model ID"),
   EmptyAnswer(JStr("content_filter")),
   Answer(JObj(<<KV("parsed", ReviewPayload("proposal-1", "pass"))>>)),
   Answer(JObj(<<KV("parsed", ReviewPayload("  ", "fail")), KV("content", JStr("ignored"))>>)),
   Answer(JObj(<<KV("content", JStr(" }"))>>))}

\* Values a model may return in place of a field, or as the whole payload
OddValues ==
  {JNull, JBool(TRUE), JBool(FALSE), JNum(0), JNum(1), JStr(""), JStr(" \n"),
   JStr("pass"), JStr(" pass "), JStr("Pass"), JStr("PASS"), JStr("fail"),
   JArr(<<>>), JObj(<<>>),
   JArr(<<JStr(" Clear scope "), JStr("  "), JNum(7), JNull, JStr("pass")>>),
   JArr(<<JNull, JStr("x"), JNum(3), JArr(<<>>), JObj(<<>>),
          JObj(<<KV("name", JStr(" ")), KV("result", JStr("pass"))>>),
          JObj(<<KV("name", JNum(4)), KV("result", JStr("PASS")),
                 KV("explanation", JStr("\t"))>>),
          JObj(<<KV("name", JStr(" Budget ")), KV("result", JStr("fail")),
                 KV("explanation", JStr(" No totals. "))>>)>>)}

ReviewFields ==
  {"id", "filename", "wordCount", "overallVerdict", "overallFeedback", "criteria",
   "notableStrengths", "recommendedImprovements"}

\* The pairs of an object without the given key
WithoutKey(pairs, key) == SelectSeq(pairs, LAMBDA p : p.k # key)

\* Payloads: non-objects, a conformant review, and that review with one field
\* missing or replaced by an odd value
RawSamples ==
  OddValues
    \cup {ReviewPayload("proposal-7", "pass"), ReviewPayload("proposal-1", "fail")}
    \cup {JObj(WithoutKey(ReviewPayload("proposal-7", "pass").v, f)) : f \in ReviewFields}
    \cup {JObj(Append(WithoutKey(ReviewPayload("proposal-7", "pass").v, f), KV(f, v))) :
            f \in ReviewFields, v \in OddValues}

\* Each payload as the provider's pre-parsed payload and as JSON text, and the
\* answers without usable content
PayloadCompletions ==
  {Answer(JObj(<<KV("parsed", raw), KV("content", JStr("-"))>>)) : raw \in RawSamples}
    \cup {Answer(JObj(<<KV("content", JStr(Stringify(raw)))>>)) : raw \in RawSamples}
    \cup {Answer(JObj(<<KV("content", JStr(text))>>)) :
            text \in {RepairableContent, "I cannot review this.", " }", "  ",
                      "Here is the review: {\"overallVerdict\": \"pass\"} Thanks",
                      "[{\"overallVerdict\": \"pass\"},]"}}
    \cup {EmptyAnswer(r) : r \in {JStr("content_filter"), JStr("length"), JStr("stop"), JNull}}
    \cup {Completion(<<>>),
          Rejection("OPENROUTER_API_KEY is not set"),
          [kind |-> "resolve",
           payload |-> JObj(<<KV("error", JObj(<<KV("code", JNum(429))>>))>>)],
          [kind |-> "resolve",
           payload |-> JObj(<<KV("choices", JArr(<<>>)),
                              KV("error", JObj(<<KV("message", JStr("Rate limited"))>>))>>)]}

\* The JSON text of a value with a minor defect: object keys that are plain
\* words are left unquoted, and a comma follows the last member of every
\* object and the last element of every array
RECURSIVE DefectiveText(_)
RECURSIVE DefectiveItems(_)
RECURSIVE DefectivePairs(_)
DefectiveKey(key) ==
  IF key # "" /\ \A k \in 1..Len(key) : Ch(key, k) \in WordChars
  THEN key ELSE QuoteString(key)
DefectiveText(x) ==
  CASE x.t = "arr" -> "[" \o DefectiveItems(x.v) \o "]"
    [] x.t = "obj" -> "{" \o DefectivePairs(x.v) \o "}"
    [] OTHER -> Stringify(x)
DefectiveItems(items) ==
  LET half == Len(items) \div 2
  IN  IF items = <<>> THEN ""
      ELSE IF Len(items) = 1 THEN DefectiveText(items[1]) \o ","
      ELSE DefectiveItems(SubSeq(items, 1, half))
             \o DefectiveItems(SubSeq(items, half + 1, Len(items)))
DefectivePairs(pairs) ==
  LET half == Len(pairs) \div 2
  IN  IF pairs = <<>> THEN ""
      ELSE IF Len(pairs) = 1
           THEN DefectiveKey(pairs[1].k) \o ":" \o DefectiveText(pairs[1].v) \o ","
      ELSE DefectivePairs(SubSeq(pairs, 1, half))
             \o DefectivePairs(SubSeq(pairs, half + 1, Len(pairs)))

\* The object payloads as JSON text with the minor defects
DefectiveCompletions ==
  {Answer(JObj(<<KV("content", JStr(DefectiveText(raw)))>>)) :
     raw \in {x \in RawSamples : x.t = "obj"}}

\* Single-document requests for the payload samples
SingleFileLists == {<<GoodPdf>>, <<BundleZip>>, <<BlankPdf>>}

\* The provider's answer in the requests around the batch ceiling
UniformCompletions == {Answer(JObj(<<KV("parsed", ReviewPayload("", "pass"))>>))}

\* Batches of one, two and three documents, and one with a document whose
\* extraction fails
ConcurrentFileLists ==
  {<<GoodPdf>>, <<GoodPdf, LimitDocx>>, <<BundleZip, GoodPdf, LimitDocx>>, <<GoodPdf, BlankPdf>>}

\* Entries of an archive: a directory, proposals at the top level and in
\* folders, a proposal without readable text, and entries of other types
EntrySamples ==
  {ZipEntry("docs/", TRUE, Buffer(0, "")),
   ZipEntry("docs/2024/Team Plan.PDF", FALSE, Buffer(900, "Alpha beta\rgamma")),
   ZipEntry("plan.docx", FALSE, Buffer(700, "Phase one")),
   ZipEntry("docs/blank.pdf", FALSE, Buffer(300, " \n ")),
   ZipEntry("README.txt", FALSE, Buffer(20, "read me")),
   ZipEntry("nested/inner.zip", FALSE, Archive(<<ZipEntry("deep.pdf", FALSE, Buffer(9, "Deep"))>>))}

MaxEntries == 3

\* Three proposals among two files of other types
MixedArchive ==
  <<ZipEntry("a.pdf", FALSE, Buffer(100, "First proposal")),
    ZipEntry("notes.txt", FALSE, Buffer(20, "notes")),
    ZipEntry("sub/b.docx", FALSE, Buffer(200, "Second proposal")),
    ZipEntry("logo.jpg", FALSE, Buffer(20, "")),
    ZipEntry("C.PDF", FALSE, Buffer(300, "Third proposal"))>>

\* Batches that mix uploads with an archive of several proposals, and one
\* with a document whose extraction is rejected
OrderedFileLists ==
  {<<Upload("batch.zip", "application/zip", Archive(MixedArchive)), GoodPdf>>,
   <<LimitDocx, BundleZip, GoodPdf>>,
   <<BundleZip, BlankPdf, GoodPdf>>}

\* A folder named like a proposal, a file named by an extension alone, and a
\* proposal with a mixed-case extension
OddArchive ==
  <<ZipEntry("folder.pdf/", TRUE, Buffer(0, "")),
    ZipEntry("folder.pdf/.pdf", FALSE, Buffer(50, "Hidden")),
    ZipEntry("folder.pdf/final.v2.DocX", FALSE, Buffer(60, "Final"))>>

ArchiveSamples ==
  UNION {[1..n -> EntrySamples] : n \in 0..MaxEntries} \cup {MixedArchive, OddArchive}

\* n copies of a text
RECURSIVE Repeat(_, _)
Repeat(unit, n) ==
  LET Twice(half) == half \o half
  IN  IF n = 0 THEN ""
      ELSE IF n % 2 = 0 THEN Twice(Repeat(unit, n \div 2))
      ELSE unit \o Repeat(unit, n - 1)

\* A clean text of three words and n characters, n > 8
TextOfLength(n) == "Plan B" \o Repeat("a", n - 8) \o " Z"

\* Lengths of extracted texts around the prompt's limit
TextLengths ==
  {40, MAX_PROPOSAL_TEXT_LENGTH - 1, MAX_PROPOSAL_TEXT_LENGTH, MAX_PROPOSAL_TEXT_LENGTH + 1,
   MAX_PROPOSAL_TEXT_LENGTH + 2, MAX_PROPOSAL_TEXT_LENGTH + 50, 2 * MAX_PROPOSAL_TEXT_LENGTH}

(***************************************************************************)
(* The rubric store.  A RubricInput is a record of three JavaScript        *)
(* values; a criterion is an object with a label and a weight.  A weight   *)
(* is an integer JNum(n), the number n + 0.5 written Half(n), or NaN.      *)
(***************************************************************************)
NaN == [t |-> "nan"]
Half(n) == [t |-> "num", v |-> n, half |-> TRUE]
\* typeof x === "number"
IsNumber(x) == x.t \in {"num", "nan"}
IsHalf(w) == "half" \in DOMAIN w
\* Twice the number w, so that the sums of halves stay integers
Twice(w) == IF IsHalf(w) THEN 2 * w.v + 1 ELSE 2 * w.v
CriterionInput(label, weight) == JObj(<<KV("label", label), KV("weight", weight)>>)
RubricInput(name, description, criteria) ==
  [name |-> name, description |-> description, criteria |-> criteria]

\* Twice the value of totalWeight after the loop over numeric weights
RECURSIVE TwiceTotalWeight(_)
TwiceTotalWeight(criteria) ==
  IF criteria = <<>> THEN 0
  ELSE Twice(Get(criteria[1], "weight")) + TwiceTotalWeight(Tail(criteria))

\* A variant of validateRubricInput that accepts any total of the weights
\* (ruled out by C21)
validateRubricInputAnyTotal(input) ==
  LET Trimmed(x) == IF Nullish(x) THEN "" ELSE Trim(x.v)
      BadLabel(c) == \/ ~Truthy(c)
                     \/ ~IsString(Get(c, "label"))
                     \/ Len(Trim(Get(c, "label").v)) = 0
      BadWeight(c) == ~IsNumber(Get(c, "weight")) \/ Get(c, "weight").t = "nan"
      Loop(items) ==
        LET bad == {k \in 1..Len(items) : BadLabel(items[k]) \/ BadWeight(items[k])}
        IN  IF bad # {}
            THEN IF BadLabel(items[SetMin(bad)])
                 THEN Throw("Each criterion requires a non-empty label")
                 ELSE Throw("Each criterion requires a numeric weight")
            ELSE Ok(TRUE)
  IN  IF ~(Nullish(input.name) \/ IsString(input.name))
        THEN Throw("input.name?.trim is not a function")
      ELSE IF ~(Nullish(input.description) \/ IsString(input.description))
        THEN Throw("input.description?.trim is not a function")
      ELSE IF Trimmed(input.name) = "" THEN Throw("Rubric name is required")
      ELSE IF Trimmed(input.description) = "" THEN Throw("Rubric description is required")
      ELSE IF ~IsArray(input.criteria) \/ Len(input.criteria.v) = 0
        THEN Throw("Provide at least one rubric criterion")
      ELSE Loop(input.criteria.v)

\* validateRubricInput, the same function in both stores: Ok, or the error thrown
validateRubricInput(input) ==
  LET Trimmed(x) == IF Nullish(x) THEN "" ELSE Trim(x.v)
      BadLabel(c) == \/ ~Truthy(c)
                     \/ ~IsString(Get(c, "label"))
                     \/ Len(Trim(Get(c, "label").v)) = 0
      BadWeight(c) == ~IsNumber(Get(c, "weight")) \/ Get(c, "weight").t = "nan"
      Loop(items) ==
        LET bad == {k \in 1..Len(items) : BadLabel(items[k]) \/ BadWeight(items[k])}
        IN  IF bad # {}
            THEN IF BadLabel(items[SetMin(bad)])
                 THEN Throw("Each criterion requires a non-empty label")
                 ELSE Throw("Each criterion requires a numeric weight")
            ELSE IF TwiceTotalWeight(items) # 200
                 THEN Throw("Criterion weights must sum to 100")
            ELSE Ok(TRUE)
  IN  IF ~(Nullish(input.name) \/ IsString(input.name))
        THEN Throw("input.name?.trim is not a function")
      ELSE IF ~(Nullish(input.description) \/ IsString(input.description))
        THEN Throw("input.description?.trim is not a function")
      ELSE IF Trimmed(input.name) = "" THEN Throw("Rubric name is required")
      ELSE IF Trimmed(input.description) = "" THEN Throw("Rubric description is required")
      ELSE IF ~IsArray(input.criteria) \/ Len(input.criteria.v) = 0
        THEN Throw("Provide at least one rubric criterion")
      ELSE Loop(input.criteria.v)

\* A database: the rows of its two tables
Database(rubricRows, criteriaRows) == [rubrics |-> rubricRows, rubric_criteria |-> criteriaRows]

\* The rows of a set in the orders that ORDER BY key allows: rows with equal
\* keys come in any order
RECURSIVE AscendingOrders(_)
AscendingOrders(keyed) ==
  IF keyed = {} THEN {<<>>}
  ELSE LET least == SetMin({x.key : x \in keyed})
       IN  UNION {{<<x.row>> \o rest : rest \in AscendingOrders(keyed \ {x})} :
                    x \in {y \in keyed : y.key = least}}

OrderedBy(rows, Key(_), descending) ==
  AscendingOrders({[key |-> IF descending THEN 0 - Key(r) ELSE Key(r), row |-> r] : r \in rows})

Position(row) == row.position
CreatedAt(row) == row.created_at

\* The criteria of a RubricRecord from rows in query order
CriterionRecords(rows) ==
  [k \in 1..Len(rows) |-> [id |-> rows[k].id, label |-> rows[k].label,
                           weight |-> rows[k].weight, position |-> rows[k].position]]

RubricRecord(rubric, criteria) ==
  [id |-> rubric.id, name |-> rubric.name, description |-> rubric.description,
   createdAt |-> rubric.created_at, updatedAt |-> rubric.updated_at, criteria |-> criteria]

\* null, the result of a lookup that finds nothing
NoRubric == [id |-> 0]

\* What a store function leaves behind: the database, the number of ids
\* generated, the value returned or the error thrown, and the step that failed
Outcome(db, ids, result, failed) == [db |-> db, ids |-> ids, result |-> result, failed |-> failed]

(***************************************************************************)
(* The DuckDB store.  Its functions run one after another on the one       *)
(* connection of the process; the schema exists from the first call on.    *)
(***************************************************************************)
\* getRubricById: the results the queries allow
duckGetRubricById(db, id) ==
  LET found == {r \in db.rubrics : r.id = id}
      rows == {c \in db.rubric_criteria : c.rubric_id = id}
  IN  IF found = {} THEN {NoRubric}
      ELSE {RubricRecord(r, CriterionRecords(s)) : r \in found, s \in OrderedBy(rows, Position, FALSE)}

\* listRubrics: the results the queries allow; a rubric's criteria keep the
\* order of the one criteria query
duckListRubrics(db) ==
  LET Grouped(rubric, criteria) ==
        RubricRecord(rubric, CriterionRecords(SelectSeq(criteria, LAMBDA c : c.rubric_id = rubric.id)))
  IN  {[k \in 1..Len(rs) |-> Grouped(rs[k], cs)] :
         rs \in OrderedBy(db.rubrics, CreatedAt, TRUE),
         cs \in OrderedBy(db.rubric_criteria, Position, FALSE)}

\* The value an INTEGER column keeps of a weight: a number with a fraction
\* is rounded to a neighbouring integer
IntegerCasts(w) == IF IsHalf(w) THEN {w.v, w.v + 1} ELSE {w.v}

\* saveRubric at time now, as the ids-th id is the last one generated.
\* failAt: 0, or the statement of the transaction that fails (1 the rubric
\* insert, 1 + k the insert of criterion k, the last one COMMIT); cast gives
\* each weight its stored value.
duckSaveRubric(db, input, now, ids, failAt, cast) ==
  LET valid == validateRubricInput(input)
      Saved(items) ==
        LET rubricId == ids + 1
            rubric == [id |-> rubricId, name |-> Trim(input.name.v),
                       description |-> Trim(input.description.v),
                       created_at |-> now, updated_at |-> now]
            criteria == {[id |-> ids + 1 + k, rubric_id |-> rubricId,
                          label |-> Trim(Get(items[k], "label").v),
                          weight |-> cast[k], position |-> k - 1] : k \in 1..Len(items)}
            committed == Database(db.rubrics \cup {rubric}, db.rubric_criteria \cup criteria)
        IN  IF failAt # 0
            THEN \* ROLLBACK undoes the statements of the transaction
                 Outcome(db, ids + IF failAt > Len(items) THEN 1 + Len(items) ELSE failAt,
                         Throw("Error: statement failed"),
                         IF failAt = 1 THEN "rubric"
                         ELSE IF failAt <= 1 + Len(items) THEN "criteria" ELSE "commit")
            ELSE Outcome(committed, ids + 1 + Len(items),
                         Ok(CHOOSE saved \in duckGetRubricById(committed, rubricId) : TRUE), "none")
  IN  IF ~valid.ok THEN Outcome(db, ids, valid, "validation")
      ELSE Saved(input.criteria.v)

(***************************************************************************)
(* The Supabase store.  Every request runs as the user of the access       *)
(* token, under the row level security policies of the migration.  faults  *)
(* names the requests of a call that fail in transport: "auth", "rubric",  *)
(* "delete" (of criteria), "criteria" (insert or select) and "rollback".   *)
(***************************************************************************)
\* supabase.auth.getUser: the user of an access token, "" for none
getUser(accessToken) ==
  CASE accessToken = "token-a" -> "user-a"
    [] accessToken = "token-b" -> "user-b"
    [] OTHER -> ""

\* The error of inserting criteria with these weights, "" for none: the
\* column is an INTEGER with CHECK (weight >= 0 AND weight <= 100)
CriteriaInsertError(items, faults) ==
  LET weights == {Get(items[k], "weight") : k \in 1..Len(items)}
  IN  IF "criteria" \in faults THEN "fetch failed"
      ELSE IF \E w \in weights : IsHalf(w) THEN "invalid input syntax for type integer"
      ELSE IF \E w \in weights : w.v < 0 \/ w.v > 100
        THEN "violates check constraint rubric_criteria_weight_check"
      ELSE ""

\* criteriaToInsert with the ids the database gives the rows
CriteriaRows(rubricId, items, ids) ==
  {[id |-> ids + k, rubric_id |-> rubricId, label |-> Trim(Get(items[k], "label").v),
    weight |-> Get(items[k], "weight").v, position |-> k - 1] : k \in 1..Len(items)}

\* The rows returned by an insert, sorted by position
SortedRecords(rows) == CriterionRecords(CHOOSE s \in OrderedBy(rows, Position, FALSE) : TRUE)

\* saveRubric
saveRubric(db, input, accessToken, now, ids, faults) ==
  LET user == getUser(accessToken)
      Stored(rubric, criteria, error) ==
        IF error # ""
        THEN \* the result of the compensating delete is not looked at
             Outcome(IF "rollback" \in faults
                     THEN Database(db.rubrics \cup {rubric}, db.rubric_criteria)
                     ELSE db,
                     ids + 1, Throw("Failed to save criteria: " \o error), "criteria")
        ELSE Outcome(Database(db.rubrics \cup {rubric}, db.rubric_criteria \cup criteria),
                     ids + 1 + Cardinality(criteria),
                     Ok(RubricRecord(rubric, SortedRecords(criteria))), "none")
      Insert(items) ==
        Stored([id |-> ids + 1, user_id |-> user, name |-> Trim(input.name.v),
                description |-> Trim(input.description.v), created_at |-> now, updated_at |-> now],
               CriteriaRows(ids + 1, items, ids + 1), CriteriaInsertError(items, faults))
      Validated(valid) ==
        IF ~valid.ok THEN Outcome(db, ids, valid, "validation")
        ELSE IF "auth" \in faults \/ user = ""
          THEN Outcome(db, ids, Throw("Authentication required"), "auth")
        ELSE IF "rubric" \in faults
          THEN Outcome(db, ids, Throw("Failed to save rubric: fetch failed"), "rubric")
        ELSE Insert(input.criteria.v)
  IN  Validated(validateRubricInput(input))

\* A variant of OwnRubric without the filter on the owner and without the
\* policies (ruled out by C25)
AnyRubric(db, id, user) == {r \in db.rubrics : r.id = id}

\* The rows of rubrics that a request of this user with .eq("id", id) matches
OwnRubric(db, id, user) == {r \in db.rubrics : r.id = id /\ r.user_id = user}

\* updateRubric
updateRubric(db, id, input, accessToken, now, ids, faults) ==
  LET user == getUser(accessToken)
      Replaced(rubric, updated, kept, criteria, error) ==
        IF "delete" \in faults
          THEN Outcome(Database(updated, db.rubric_criteria), ids,
                       Throw("Failed to update criteria: fetch failed"), "delete")
        ELSE IF error # ""
          THEN Outcome(Database(updated, kept), ids,
                       Throw("Failed to save updated criteria: " \o error), "criteria")
        ELSE Outcome(Database(updated, kept \cup criteria), ids + Cardinality(criteria),
                     Ok(RubricRecord(rubric, SortedRecords(criteria))), "none")
      Updated(items, old, rubric) ==
        Replaced(rubric, (db.rubrics \ {old}) \cup {rubric},
                 {c \in db.rubric_criteria : c.rubric_id # id},
                 CriteriaRows(id, items, ids), CriteriaInsertError(items, faults))
      Update(items, old) ==
        Updated(items, old, [old EXCEPT !.name = Trim(input.name.v),
                                        !.description = Trim(input.description.v),
                                        !.updated_at = now])
      Validated(valid, own) ==
        IF ~valid.ok THEN Outcome(db, ids, valid, "validation")
        ELSE IF "auth" \in faults \/ user = ""
          THEN Outcome(db, ids, Throw("Authentication required"), "auth")
        ELSE IF "rubric" \in faults
          THEN Outcome(db, ids, Throw("Failed to update rubric: fetch failed"), "rubric")
        ELSE IF own = {}
          THEN Outcome(db, ids, Throw("Failed to update rubric: no rows returned"), "rubric")
        ELSE Update(input.criteria.v, CHOOSE r \in own : TRUE)
  IN  Validated(validateRubricInput(input), OwnRubric(db, id, user))

\* deleteRubric; the criteria of a deleted rubric go with it (ON DELETE CASCADE)
deleteRubric(db, id, accessToken, ids, faults) ==
  LET user == getUser(accessToken)
      gone == {r.id : r \in OwnRubric(db, id, user)}
  IN  IF "auth" \in faults \/ user = ""
        THEN Outcome(db, ids, Throw("Authentication required"), "auth")
      ELSE IF "rubric" \in faults
        THEN Outcome(db, ids, Throw("Failed to delete rubric: fetch failed"), "rubric")
      ELSE Outcome(Database({r \in db.rubrics : r.id \notin gone},
                            {c \in db.rubric_criteria : c.rubric_id \notin gone}),
                   ids, Ok(TRUE), "none")

\* The rows a user may select
VisibleRubrics(db, user) == {r \in db.rubrics : r.user_id = user}
VisibleCriteria(db, user) ==
  {c \in db.rubric_criteria : \E r \in db.rubrics : r.id = c.rubric_id /\ r.user_id = user}

\* listRubrics: the outcomes the queries allow
listRubrics(db, accessToken, ids, faults) ==
  LET user == getUser(accessToken)
      Grouped(rubric, criteria) ==
        RubricRecord(rubric, CriterionRecords(SelectSeq(criteria, LAMBDA c : c.rubric_id = rubric.id)))
      Listed(rs) ==
        {Outcome(db, ids, Ok([k \in 1..Len(rs) |-> Grouped(rs[k], cs)]), "none") :
           cs \in OrderedBy({c \in VisibleCriteria(db, user) : \E k \in 1..Len(rs) : rs[k].id = c.rubric_id},
                            Position, FALSE)}
  IN  IF "auth" \in faults \/ user = ""
        THEN {Outcome(db, ids, Throw("Authentication required"), "auth")}
      ELSE IF "rubric" \in faults
        THEN {Outcome(db, ids, Throw("Failed to fetch rubrics: fetch failed"), "rubric")}
      ELSE IF VisibleRubrics(db, user) = {} THEN {Outcome(db, ids, Ok(<<>>), "none")}
      ELSE IF "criteria" \in faults
        THEN {Outcome(db, ids, Throw("Failed to fetch criteria: fetch failed"), "criteria")}
      ELSE UNION {Listed(rs) : rs \in OrderedBy(VisibleRubrics(db, user), CreatedAt, TRUE)}

\* getRubricById: the outcomes the queries allow
getRubricById(db, id, accessToken, ids, faults) ==
  LET user == getUser(accessToken)
      rows == {c \in VisibleCriteria(db, user) : c.rubric_id = id}
  IN  IF "auth" \in faults \/ user = ""
        THEN {Outcome(db, ids, Throw("Authentication required"), "auth")}
      ELSE IF "rubric" \in faults \/ OwnRubric(db, id, user) = {}
        THEN {Outcome(db, ids, Ok(NoRubric), "none")}
      ELSE IF "criteria" \in faults
        THEN {Outcome(db, ids, Throw("Failed to fetch criteria: fetch failed"), "criteria")}
      ELSE {Outcome(db, ids, Ok(RubricRecord(r, CriterionRecords(s))), "none") :
              r \in OwnRubric(db, id, user), s \in OrderedBy(rows, Position, FALSE)}

(***************************************************************************)
(* The rubric routes.                                                      *)
(***************************************************************************)
\* Number.parseFloat(String(value)) of a value that is not a number; the
\* strings of the model hold integers
RECURSIVE ParseFloatOfString(_)
ParseFloatOfString(value) ==
  LET Parsed(s) ==
        LET nonSpace == {j \in 1..Len(s) : ~IsSpace(Ch(s, j))}
            start == IF nonSpace = {} THEN Len(s) + 1 ELSE SetMin(nonSpace)
            signed == Ch(s, start) \in {"+", "-"}
            digits == ScanDigits(s, IF signed THEN start + 1 ELSE start, 0)
        IN  IF digits.pos = (IF signed THEN start + 1 ELSE start) THEN NaN
            ELSE JNum(IF Ch(s, start) = "-" THEN 0 - digits.val ELSE digits.val)
  IN  CASE value.t = "str" -> Parsed(value.v)
        [] value.t = "arr" -> IF Len(value.v) = 0 THEN NaN
                              ELSE IF value.v[1].t = "num" THEN value.v[1]
                              ELSE ParseFloatOfString(value.v[1])
        [] OTHER -> NaN

\* normalizeCriteria of the rubric routes
rubricsNormalizeCriteria(criteria) ==
  LET Weight(weightRaw) ==
        LET weight == IF IsNumber(weightRaw) THEN weightRaw
                      ELSE IF Nullish(weightRaw) THEN JNum(0)
                      ELSE ParseFloatOfString(weightRaw)
        IN  IF weight.t = "nan" THEN JNum(0) ELSE weight
      Label(item) == IF IsString(Get(item, "label")) THEN Trim(Get(item, "label").v) ELSE ""
      Kept(item) == Truthy(item) /\ TypeofObject(item) /\ Label(item) # ""
      Item(item) == CriterionInput(JStr(Label(item)), Weight(Get(item, "weight")))
      Map(items) == [k \in 1..Len(items) |-> IF Kept(items[k]) THEN Item(items[k]) ELSE JNull]
  IN  IF ~IsArray(criteria) THEN JArr(<<>>)
      ELSE JArr(SelectSeq(Map(criteria.v), LAMBDA item : item # JNull))

\* getAccessToken: the token of the authorization header, null without one
getAccessToken(authHeader) ==
  IF ~Truthy(authHeader) \/ Len(authHeader.v) < 7 \/ SubSeq(authHeader.v, 1, 7) # "Bearer "
  THEN JNull
  ELSE JStr(SubSeq(authHeader.v, 8, Len(authHeader.v)))

\* serializeRubric; the times stay numbers of milliseconds
serializeRubric(record) ==
  [record EXCEPT !.criteria =
     CHOOSE s \in OrderedBy({record.criteria[k] : k \in 1..Len(record.criteria)}, Position, FALSE) : TRUE]

\* rubricInput of POST and PUT
RouteInput(payload) ==
  RubricInput(IF IsString(Get(payload, "name")) THEN Get(payload, "name") ELSE JStr(""),
              IF IsString(Get(payload, "description")) THEN Get(payload, "description") ELSE JStr(""),
              rubricsNormalizeCriteria(Get(payload, "criteria")))

NoInput == RubricInput(Undefined, Undefined, Undefined)
NoResult == [ok |-> FALSE, message |-> ""]
NoBody == [parsed |-> FALSE, payload |-> Undefined]

\* The record of a call: the route and its request (route "none" for a call
\* of a store function by itself), the store function it called (fn "none"
\* when it called none) with its arguments and outcome, and the response
CallRecord(route, header, fn, id, input, out, status, body) ==
  [route |-> route, header |-> header, fn |-> fn, id |-> id, input |-> input,
   result |-> out.result, failed |-> out.failed, status |-> status, body |-> body]

NoOutcome == [result |-> NoResult, failed |-> "none"]
NoCall == CallRecord("none", JNull, "none", 0, NoInput, NoOutcome, 0, [error |-> ""])

Unauthorized(route, header) ==
  CallRecord(route, header, "none", 0, NoInput, NoOutcome, 401,
             [error |-> "Authentication required. Please sign in."])
BadRequest(route, header, message) ==
  CallRecord(route, header, "none", 0, NoInput, NoOutcome, 400, [error |-> message])

\* The status of a caught error
ErrorStatus(message, otherwise) == IF Includes(message, "Authentication") THEN 401 ELSE otherwise

(***************************************************************************)
(* The request handler POST as a state machine.                            *)
(***************************************************************************)
VARIABLES
  request,          \* the form data of the request
  providerOutcomes, \* what the provider may settle a completion call with
  pc,               \* "received", "extracting", "reviewing" or "responded"
  collectedFiles,   \* the files after archive expansion
  extraction,       \* per file: the promise of toParsedProposal
  firstRejection,   \* the first extraction promise that rejected
  task,             \* per proposal: the promise of its review callback
  llmCalls,         \* per proposal: the createChatCompletion calls made
  response,         \* the response of the request, NoResponse before it
  backend,          \* the module behind the rubric store: "duckdb", "supabase" or "none"
  rubrics,          \* the rows of table rubrics
  rubric_criteria,  \* the rows of table rubric_criteria
  clock,            \* the time in milliseconds
  uuids,            \* the number of ids generated so far
  call              \* the last call of the rubric store or of a rubric route

storeVars == <<backend, rubrics, rubric_criteria, clock, uuids, call>>

vars == <<request, providerOutcomes, pc, collectedFiles, extraction, firstRejection,
          task, llmCalls, response, backend, rubrics, rubric_criteria, clock, uuids, call>>

Docs == 1..Len(extraction)
NoRejection == [index |-> 0, message |-> ""]

\* The review route does not use the rubric store
StoreUnused ==
  /\ backend = "none"
  /\ rubrics = {}
  /\ rubric_criteria = {}
  /\ clock = 0
  /\ uuids = 0
  /\ call = NoCall

InitHandler ==
  /\ pc = "received"
  /\ collectedFiles = <<>>
  /\ extraction = <<>>
  /\ firstRejection = NoRejection
  /\ task = <<>>
  /\ llmCalls = <<>>
  /\ response = NoResponse
  /\ StoreUnused

Init ==
  /\ request \in {Request(TRUE, r, f) : r \in RubricSamples, f \in FileLists \cup EdgeFileLists}
                   \cup {Request(FALSE, JNull, <<>>)}
  /\ providerOutcomes = CompletionSamples
  /\ InitHandler

InitPayloads ==
  /\ request \in {Request(TRUE, JStr("Criterion: Clear budget"), f) : f \in SingleFileLists}
  /\ providerOutcomes = PayloadCompletions \cup DefectiveCompletions
  /\ InitHandler

InitCeiling ==
  /\ request \in {Request(TRUE, JStr("Criterion: Clear budget"), f) : f \in LargeFileLists}
  /\ providerOutcomes = UniformCompletions
  /\ InitHandler

Respond(r) ==
  /\ response' = r
  /\ pc' = "responded"

\* The handler up to the first await of Promise.all: validation, collection
\* of the files, the batch-size check and the start of every extraction
Receive ==
  /\ pc = "received"
  /\ LET collected == CollectFiles(request.files, <<>>)
     IN  IF ~request.wellFormed
         THEN Respond(Json(400, [error |-> "Invalid form-data payload"]))
                /\ UNCHANGED <<collectedFiles, extraction, task, llmCalls>>
         ELSE IF ~IsString(request.rubricText) \/ Len(Trim(request.rubricText.v)) = 0
         THEN Respond(Json(400, [error |-> "A rubric is required before requesting reviews."]))
                /\ UNCHANGED <<collectedFiles, extraction, task, llmCalls>>
         ELSE IF Len(request.files) = 0
         THEN Respond(Json(400, [error |-> "Attach at least one proposal file."]))
                /\ UNCHANGED <<collectedFiles, extraction, task, llmCalls>>
         ELSE IF collected.kind = "unsupported"
         THEN Respond(Json(400, [error |-> "Unsupported file type: " \o collected.name]))
                /\ UNCHANGED <<collectedFiles, extraction, task, llmCalls>>
         ELSE IF collected.kind = "thrown"
         THEN Respond(Json(500, [error |-> "Internal Server Error"]))
                /\ UNCHANGED <<collectedFiles, extraction, task, llmCalls>>
         ELSE IF Len(collected.files) = 0
         THEN Respond(Json(400, [error |-> "No PDF or DOCX proposals were found in the upload."]))
                /\ collectedFiles' = collected.files
                /\ UNCHANGED <<extraction, task, llmCalls>>
         ELSE IF TooManyProposals(collected.files)
         THEN Respond(Json(400, [error |-> "Reduce the number of proposals. Limit is "
                                             \o ToDecimal(MAX_PROPOSALS) \o "."]))
                /\ collectedFiles' = collected.files
                /\ UNCHANGED <<extraction, task, llmCalls>>
         ELSE /\ pc' = "extracting"
              /\ collectedFiles' = collected.files
              /\ extraction' = [i \in 1..Len(collected.files) |-> [state |-> "pending"]]
              /\ task' = [i \in 1..Len(collected.files) |-> [state |-> "idle"]]
              /\ llmCalls' = [i \in 1..Len(collected.files) |-> 0]
              /\ UNCHANGED response
  /\ UNCHANGED <<storeVars, request, providerOutcomes, firstRejection>>

\* The promise of toParsedProposal(collectedFiles[i], i - 1) settles
ExtractSettle(i) ==
  /\ extraction[i].state = "pending"
  /\ LET parsed == toParsedProposal(collectedFiles[i], i - 1)
     IN  IF parsed.ok
         THEN /\ extraction' = [extraction EXCEPT ![i] =
                                  [state |-> "fulfilled", proposal |-> parsed.value]]
              /\ UNCHANGED firstRejection
         ELSE /\ extraction' = [extraction EXCEPT ![i] =
                                  [state |-> "rejected", message |-> parsed.message]]
              /\ firstRejection' = IF firstRejection.index = 0
                                   THEN [index |-> i, message |-> parsed.message]
                                   ELSE firstRejection
  /\ UNCHANGED <<storeVars, request, providerOutcomes, pc, collectedFiles, task, llmCalls, response>>

\* Promise.all(extractions) rejected: the outer catch answers with the first
\* rejection's message
ExtractionFailed ==
  /\ pc = "extracting"
  /\ firstRejection.index # 0
  /\ Respond(Json(500, [error |-> firstRejection.message]))
  /\ UNCHANGED <<storeVars, request, providerOutcomes, collectedFiles, extraction, firstRejection,
                 task, llmCalls>>

\* A variant that starts the review of every document whose text is already
\* extracted as soon as the first document's is (ruled out by C29)
StartReviewsEarly ==
  /\ pc = "extracting"
  /\ extraction[1].state = "fulfilled"
  /\ pc' = "reviewing"
  /\ task' = [i \in Docs |->
                IF extraction[i].state = "fulfilled"
                THEN [state |-> "awaiting",
                      prompt |-> createUserPrompt(Trim(request.rubricText.v), "",
                                                  extraction[i].proposal)]
                ELSE task[i]]
  /\ llmCalls' = [i \in Docs |->
                    IF extraction[i].state = "fulfilled" THEN llmCalls[i] + 1 ELSE llmCalls[i]]
  /\ UNCHANGED <<storeVars, request, providerOutcomes, collectedFiles, extraction, firstRejection,
                 response>>

\* Promise.all(extractions) fulfilled: parsedProposals.map starts every review
\* callback, each up to its await of createChatCompletion
StartReviews ==
  /\ pc = "extracting"
  /\ \A i \in Docs : extraction[i].state = "fulfilled"
  /\ pc' = "reviewing"
  /\ task' = [i \in Docs |->
                [state |-> "awaiting",
                 prompt |-> createUserPrompt(
                              Trim(request.rubricText.v),
                              IF IsString(request.submissionContext)
                              THEN request.submissionContext.v ELSE "",
                              extraction[i].proposal)]]
  /\ llmCalls' = [i \in Docs |-> llmCalls[i] + 1]
  /\ UNCHANGED <<storeVars, request, providerOutcomes, collectedFiles, extraction, firstRejection,
                 response>>

\* A variant whose callback calls the provider a second time after a failed
\* attempt (ruled out by C15)
CompletionSettleRetry(i, c) ==
  /\ task[i].state = "awaiting"
  /\ LET Settle(result) ==
           IF "error" \in DOMAIN result /\ llmCalls[i] < 2
           THEN /\ llmCalls' = [llmCalls EXCEPT ![i] = llmCalls[i] + 1]
                /\ UNCHANGED task
           ELSE /\ task' = [task EXCEPT ![i] =
                              [state |-> "settled", completion |-> c, result |-> result]]
                /\ UNCHANGED llmCalls
     IN  Settle(ReviewTask(extraction[i].proposal, c))
  /\ UNCHANGED <<storeVars, request, providerOutcomes, pc, collectedFiles, extraction, firstRejection,
                 response>>

\* The completion call of proposal i settles with c and its callback runs to
\* its return
CompletionSettle(i, c) ==
  /\ task[i].state = "awaiting"
  /\ task' = [task EXCEPT ![i] =
                [state |-> "settled", completion |-> c,
                 result |-> ReviewTask(extraction[i].proposal, c)]]
  /\ UNCHANGED <<storeVars, request, providerOutcomes, pc, collectedFiles, extraction, firstRejection,
                 llmCalls, response>>

\* Promise.all(reviewPromises) fulfilled: the response is built
Join ==
  /\ pc = "reviewing"
  /\ \A i \in Docs : task[i].state = "settled"
  /\ Respond(BatchResponse([i \in Docs |-> task[i].result]))
  /\ UNCHANGED <<storeVars, request, providerOutcomes, collectedFiles, extraction, firstRejection,
                 task, llmCalls>>

Next ==
  \/ Receive
  \/ \E i \in Docs : ExtractSettle(i)
  \/ ExtractionFailed
  \/ StartReviews
  \/ \E i \in Docs : \E c \in providerOutcomes : CompletionSettle(i, c)
  \/ Join

Spec == Init /\ [][Next]_vars

\* Single-document requests with the payload samples as the provider's answers
SpecPayloads == InitPayloads /\ [][Next]_vars

\* The requests around the batch ceiling
SpecCeiling == InitCeiling /\ [][Next]_vars

InitArchive ==
  /\ request \in {Request(TRUE, JStr("Criterion: Clear budget"),
                          <<Upload("batch.zip", "application/zip", Archive(entries))>>) :
                    entries \in ArchiveSamples}
  /\ providerOutcomes = UniformCompletions
  /\ InitHandler

\* Requests that upload one archive
SpecArchive == InitArchive /\ [][Next]_vars

InitOrder ==
  /\ request \in {Request(TRUE, JStr("Criterion: Clear budget"), f) : f \in OrderedFileLists}
  /\ providerOutcomes = CompletionSamples
  /\ InitHandler

\* Requests whose documents come from uploads and from an archive
SpecOrder == InitOrder /\ [][Next]_vars

\* The handler after the extraction of one uploaded document has been
\* fulfilled, for documents whose text is around the prompt's limit
InitPrompt ==
  /\ \E n \in TextLengths : \E context \in {JNull, JStr(""), JStr("Second round")} :
       /\ request = [Request(TRUE, JStr(" Criterion: Clear budget "),
                             <<Upload("long.pdf", "application/pdf",
                                      Buffer(n + 2, TextOfLength(n)))>>)
                       EXCEPT !.submissionContext = context]
       /\ collectedFiles = <<[filename |-> "long.pdf",
                              buffer |-> Buffer(n + 2, TextOfLength(n)),
                              mimetype |-> "application/pdf"]>>
       /\ extraction = <<[state |-> "fulfilled",
                          proposal |-> [id |-> "proposal-1", filename |-> "long.pdf",
                                        mimetype |-> "application/pdf",
                                        text |-> TextOfLength(n), wordCount |-> 3]]>>
  /\ providerOutcomes = CompletionSamples
  /\ pc = "extracting"
  /\ firstRejection = NoRejection
  /\ task = <<[state |-> "idle"]>>
  /\ llmCalls = <<0>>
  /\ response = NoResponse
  /\ StoreUnused

NextPrompt ==
  \/ StartReviews
  \/ \E i \in Docs : \E c \in providerOutcomes : CompletionSettle(i, c)
  \/ Join

\* The review stage of requests with one long document
SpecPrompt == InitPrompt /\ [][NextPrompt]_vars

\* A variant in which a call that never returns also keeps the callbacks of
\* the other pending calls from resuming (ruled out by C17)
CompletionHangBlocking(i) ==
  /\ task[i].state = "awaiting"
  /\ task' = [j \in Docs |-> IF j = i THEN [state |-> "hung"]
                             ELSE IF task[j].state = "awaiting" THEN [state |-> "blocked"]
                             ELSE task[j]]
  /\ UNCHANGED <<storeVars, request, providerOutcomes, pc, collectedFiles, extraction, firstRejection,
                 llmCalls, response>>

\* The completion call of proposal i never returns: fetch is given no timeout
\* and no abort signal, so the callback stays at its await for good
CompletionHang(i) ==
  /\ task[i].state = "awaiting"
  /\ task' = [task EXCEPT ![i] = [state |-> "hung"]]
  /\ UNCHANGED <<storeVars, request, providerOutcomes, pc, collectedFiles, extraction, firstRejection,
                 llmCalls, response>>

NextHang ==
  \/ Next
  \/ \E i \in Docs : CompletionHang(i)

\* Once the review callbacks have made their calls, the event loop runs
\* every continuation that is ready: the fate of each completion call is
\* decided, it either is one that never returns or settles and its callback
\* runs to its return, and the join's continuation runs
Fairness ==
  /\ WF_vars(\E i \in Docs : CompletionHang(i) \/ \E c \in providerOutcomes : CompletionSettle(i, c))
  /\ WF_vars(Join)

InitHang ==
  /\ request \in {Request(TRUE, JStr("Criterion: Clear budget"), f) : f \in ConcurrentFileLists}
  /\ providerOutcomes = CompletionSamples
  /\ InitHandler

\* The handler with completion calls that may hang, under fair scheduling
SpecHang == InitHang /\ [][NextHang]_vars /\ Fairness

(***************************************************************************)
(* The rubric store as a state machine: one action per call.               *)
(***************************************************************************)
\* The rubrics stored at a time in the runs of the routes, the milliseconds
\* that pass and the ids that are generated in a run
MaxRubrics == 1
MaxClock == 1
MaxUuids == 4

ReviewIdle ==
  /\ request = Request(FALSE, JNull, <<>>)
  /\ providerOutcomes = {}
  /\ pc = "responded"
  /\ collectedFiles = <<>>
  /\ extraction = <<>>
  /\ firstRejection = NoRejection
  /\ task = <<>>
  /\ llmCalls = <<>>
  /\ response = NoResponse

reviewVars == <<request, providerOutcomes, pc, collectedFiles, extraction, firstRejection,
                task, llmCalls, response>>

Criteria2(l1, w1, l2, w2) == JArr(<<CriterionInput(l1, w1), CriterionInput(l2, w2)>>)

\* Inputs that validateRubricInput accepts
ValidInputs ==
  {RubricInput(JStr(" Grant rubric "), JStr("Scores grants "),
               Criteria2(JStr(" Impact "), JNum(60), JStr("Budget"), JNum(40))),
   RubricInput(JStr("Single"), JStr("One criterion"), JArr(<<CriterionInput(JStr("Only"), JNum(100))>>)),
   RubricInput(JStr("Halves"), JStr("Fractions"),
               Criteria2(JStr("A"), Half(50), JStr("B"), Half(49))),
   RubricInput(JStr("Bonus"), JStr("Out of range"),
               Criteria2(JStr("Extra"), JNum(150), JStr("Malus"), JNum(0 - 50)))}

\* Inputs that validateRubricInput rejects
InvalidInputs ==
  {RubricInput(JStr("Short"), JStr("Weights 90"),
               Criteria2(JStr("A"), JNum(60), JStr("B"), JNum(30))),
   RubricInput(JStr("Long"), JStr("Weights 100.5"),
               Criteria2(JStr("A"), Half(60), JStr("B"), JNum(40))),
   RubricInput(JStr("  "), JStr("Blank name"), JArr(<<CriterionInput(JStr("Only"), JNum(100))>>)),
   RubricInput(JStr("No description"), Undefined, JArr(<<CriterionInput(JStr("Only"), JNum(100))>>)),
   RubricInput(JStr("Blank description"), JStr(" \n"), JArr(<<CriterionInput(JStr("Only"), JNum(100))>>)),
   RubricInput(JStr("No criteria"), JStr("Empty list"), JArr(<<>>)),
   RubricInput(JStr("No list"), JStr("Criteria is null"), JNull),
   RubricInput(JStr("Blank label"), JStr("d"),
               Criteria2(JStr("A"), JNum(60), JStr(" "), JNum(40))),
   RubricInput(JStr("No label"), JStr("d"), Criteria2(JNum(7), JNum(60), JStr("B"), JNum(40))),
   RubricInput(JStr("Null criterion"), JStr("d"), JArr(<<JNull, CriterionInput(JStr("B"), JNum(100))>>)),
   RubricInput(JStr("Text weight"), JStr("d"),
               Criteria2(JStr("A"), JStr("60"), JStr("B"), JNum(40))),
   RubricInput(JStr("NaN weight"), JStr("d"), Criteria2(JStr("A"), NaN, JStr("B"), JNum(100)))}

RubricInputs == ValidInputs \cup InvalidInputs

\* The names of the inputs that the requests of the routes carry
RouteNames == {JStr(" Grant rubric "), JStr("Single"), JStr("Bonus"), JStr("Short")}

\* The statements of a save's transaction that may fail, 0 for none
FailPoints(input) ==
  IF validateRubricInput(input).ok THEN 0..(Len(input.criteria.v) + 2) ELSE {0}

\* The stored values the INTEGER column may keep of the weights of an input
Casts(input) ==
  IF ~validateRubricInput(input).ok THEN {<<>>}
  ELSE LET items == input.criteria.v
           all == UNION {IntegerCasts(Get(items[k], "weight")) : k \in 1..Len(items)}
       IN  {c \in [1..Len(items) -> all] :
              \A k \in 1..Len(items) : c[k] \in IntegerCasts(Get(items[k], "weight"))}

\* The authorization headers of the requests
Headers ==
  {JNull, JStr("Basic dXNlcjpwdw=="), JStr("Bearer "), JStr("Bearer token-a"),
   JStr("Bearer token-b")}

PayloadOf(input) ==
  JObj(<<KV("name", input.name), KV("description", input.description),
         KV("criteria", input.criteria)>>)

\* The bodies of the requests: inputs as JSON, a body that is no JSON and
\* JSON that is no object
Bodies ==
  {[parsed |-> TRUE, payload |-> PayloadOf(input)] :
     input \in {i \in RubricInputs : i.name \in RouteNames}}
  \cup {NoBody, [parsed |-> TRUE, payload |-> JStr("rubric")]}

\* The requests of a call of a store function that may fail in transport
FaultSets(fn) ==
  CASE fn = "saveRubric" -> {{}, {"criteria"}, {"criteria", "rollback"}}
    [] fn = "updateRubric" -> {{}, {"delete"}, {"criteria"}}
    [] fn = "deleteRubric" -> {{}, {"rubric"}}
    [] OTHER -> {{}, {"auth"}, {"criteria"}}

\* The bodies, ids and faults that make a difference to a request
Authorized(header) == Truthy(getAccessToken(header))
BodiesOf(header) == IF Authorized(header) THEN Bodies ELSE {NoBody}
IdsOf(header) ==
  IF Authorized(header) THEN {r.id : r \in rubrics} \cup {uuids + 1} ELSE {uuids + 1}
FaultsOf(fn, header) == IF Authorized(header) THEN FaultSets(fn) ELSE {{}}
\* The faults of the storage service are drawn with one body, the first rubric
FaultsOfBody(fn, header, body) ==
  IF Authorized(header) /\ body.parsed /\ Get(body.payload, "name") = JStr(" Grant rubric ")
  THEN FaultSets(fn) ELSE {{}}

\* The ids of the requests: the stored ones and one that is not stored
Ids == {r.id : r \in rubrics} \cup {uuids + 1}

\* The call leaves the store as out and is recorded
Returns(out, record) ==
  /\ backend = "supabase" => Cardinality(out.db.rubrics) <= MaxRubrics
  /\ out.ids <= MaxUuids
  /\ rubrics' = out.db.rubrics
  /\ rubric_criteria' = out.db.rubric_criteria
  /\ uuids' = out.ids
  /\ call' = record

\* The call answers without a call of the store
Answers(record) ==
  /\ call' = record
  /\ UNCHANGED <<rubrics, rubric_criteria, uuids>>

\* A call of saveRubric of the DuckDB store
DuckSave(input, failAt, cast) ==
  /\ backend = "duckdb"
  /\ LET Saved(out) ==
           Returns(out, CallRecord("none", JNull, "saveRubric", 0, input, out, 0, [error |-> ""]))
     IN  Saved(duckSaveRubric(Database(rubrics, rubric_criteria), input, clock, uuids, failAt, cast))
  /\ UNCHANGED <<backend, clock, reviewVars>>

\* A call of getRubricById of the DuckDB store
DuckGet(id) ==
  /\ backend = "duckdb"
  /\ \E found \in duckGetRubricById(Database(rubrics, rubric_criteria), id) :
       call' = CallRecord("none", JNull, "getRubricById", id, NoInput,
                          [result |-> Ok(found), failed |-> "none"], 0, [error |-> ""])
  /\ UNCHANGED <<backend, rubrics, rubric_criteria, clock, uuids, reviewVars>>

\* A call of listRubrics of the DuckDB store
DuckList ==
  /\ backend = "duckdb"
  /\ \E listed \in duckListRubrics(Database(rubrics, rubric_criteria)) :
       call' = CallRecord("none", JNull, "listRubrics", 0, NoInput,
                          [result |-> Ok(listed), failed |-> "none"], 0, [error |-> ""])
  /\ UNCHANGED <<backend, rubrics, rubric_criteria, clock, uuids, reviewVars>>

\* A millisecond passes between two calls of the DuckDB store; the calls of
\* the routes all come within the one millisecond
Tick ==
  /\ backend = "duckdb"
  /\ clock < MaxClock
  /\ clock' = clock + 1
  /\ UNCHANGED <<backend, rubrics, rubric_criteria, uuids, call, reviewVars>>

\* GET /api/rubrics
RubricsGET(header, faults) ==
  /\ backend = "supabase"
  /\ LET route == "GET /api/rubrics"
         accessToken == getAccessToken(header)
         Listed(out) ==
           Returns(out, CallRecord(route, header, "listRubrics", 0, NoInput, out,
                     IF out.result.ok THEN 200 ELSE ErrorStatus(out.result.message, 500),
                     IF out.result.ok
                     THEN [rubrics |-> [k \in 1..Len(out.result.value) |->
                                          serializeRubric(out.result.value[k])]]
                     ELSE [error |-> out.result.message]))
     IN  IF ~Truthy(accessToken) THEN Answers(Unauthorized(route, header))
         ELSE \E out \in listRubrics(Database(rubrics, rubric_criteria), accessToken.v, uuids, faults) :
                Listed(out)
  /\ UNCHANGED <<backend, clock, reviewVars>>

\* POST /api/rubrics
RubricsPOST(header, body, faults) ==
  /\ backend = "supabase"
  /\ LET route == "POST /api/rubrics"
         accessToken == getAccessToken(header)
         Saved(rubricInput, out) ==
           Returns(out, CallRecord(route, header, "saveRubric", 0, rubricInput, out,
                     IF out.result.ok THEN 201 ELSE ErrorStatus(out.result.message, 400),
                     IF out.result.ok THEN [rubric |-> serializeRubric(out.result.value)]
                     ELSE [error |-> out.result.message]))
         Save(rubricInput) ==
           Saved(rubricInput, saveRubric(Database(rubrics, rubric_criteria), rubricInput,
                                         accessToken.v, clock, uuids, faults))
     IN  IF ~Truthy(accessToken) THEN Answers(Unauthorized(route, header))
         ELSE IF ~body.parsed
           THEN Answers(BadRequest(route, header, "Request body must be valid JSON."))
         ELSE IF ~Truthy(body.payload) \/ ~TypeofObject(body.payload)
           THEN Answers(BadRequest(route, header, "Provide rubric details in the request body."))
         ELSE Save(RouteInput(body.payload))
  /\ UNCHANGED <<backend, clock, reviewVars>>

\* GET /api/rubrics/[id]
RubricGET(header, id, faults) ==
  /\ backend = "supabase"
  /\ LET route == "GET /api/rubrics/[id]"
         accessToken == getAccessToken(header)
         Found(out) ==
           Returns(out, CallRecord(route, header, "getRubricById", id, NoInput, out,
                     IF ~out.result.ok THEN ErrorStatus(out.result.message, 500)
                     ELSE IF out.result.value = NoRubric THEN 404 ELSE 200,
                     IF ~out.result.ok THEN [error |-> out.result.message]
                     ELSE IF out.result.value = NoRubric THEN [error |-> "Rubric not found"]
                     ELSE [rubric |-> serializeRubric(out.result.value)]))
     IN  IF ~Truthy(accessToken) THEN Answers(Unauthorized(route, header))
         ELSE \E out \in getRubricById(Database(rubrics, rubric_criteria), id, accessToken.v,
                                       uuids, faults) : Found(out)
  /\ UNCHANGED <<backend, clock, reviewVars>>

\* PUT /api/rubrics/[id]
RubricPUT(header, id, body, faults) ==
  /\ backend = "supabase"
  /\ LET route == "PUT /api/rubrics/[id]"
         accessToken == getAccessToken(header)
         Updated(rubricInput, out) ==
           Returns(out, CallRecord(route, header, "updateRubric", id, rubricInput, out,
                     IF out.result.ok THEN 200 ELSE ErrorStatus(out.result.message, 400),
                     IF out.result.ok THEN [rubric |-> serializeRubric(out.result.value)]
                     ELSE [error |-> out.result.message]))
         Update(rubricInput) ==
           Updated(rubricInput, updateRubric(Database(rubrics, rubric_criteria), id, rubricInput,
                                             accessToken.v, clock, uuids, faults))
     IN  IF ~Truthy(accessToken) THEN Answers(Unauthorized(route, header))
         ELSE IF ~body.parsed
           THEN Answers(BadRequest(route, header, "Request body must be valid JSON."))
         ELSE IF ~Truthy(body.payload) \/ ~TypeofObject(body.payload)
           THEN Answers(BadRequest(route, header, "Provide rubric details in the request body."))
         ELSE Update(RouteInput(body.payload))
  /\ UNCHANGED <<backend, clock, reviewVars>>

\* DELETE /api/rubrics/[id]
RubricDELETE(header, id, faults) ==
  /\ backend = "supabase"
  /\ LET route == "DELETE /api/rubrics/[id]"
         accessToken == getAccessToken(header)
         Deleted(out) ==
           Returns(out, CallRecord(route, header, "deleteRubric", id, NoInput, out,
                     IF out.result.ok THEN 200 ELSE ErrorStatus(out.result.message, 500),
                     IF out.result.ok THEN [success |-> TRUE] ELSE [error |-> out.result.message]))
     IN  IF ~Truthy(accessToken) THEN Answers(Unauthorized(route, header))
         ELSE Deleted(deleteRubric(Database(rubrics, rubric_criteria), id, accessToken.v, uuids, faults))
  /\ UNCHANGED <<backend, clock, reviewVars>>

InitRubrics ==
  /\ backend \in {"duckdb", "supabase"}
  /\ rubrics = {}
  /\ rubric_criteria = {}
  /\ clock = 0
  /\ uuids = 0
  /\ call = NoCall
  /\ ReviewIdle

NextRubrics ==
  \/ \E input \in RubricInputs : \E failAt \in FailPoints(input) : \E cast \in Casts(input) :
       DuckSave(input, failAt, cast)
  \/ \E id \in Ids : DuckGet(id)
  \/ DuckList
  \/ Tick
  \/ \E header \in Headers : \E faults \in FaultsOf("listRubrics", header) : RubricsGET(header, faults)
  \/ \E header \in Headers : \E body \in BodiesOf(header) : \E faults \in FaultsOfBody("saveRubric", header, body) :
       RubricsPOST(header, body, faults)
  \/ \E header \in Headers : \E id \in IdsOf(header) : \E faults \in FaultsOf("getRubricById", header) :
       RubricGET(header, id, faults)
  \/ \E header \in Headers : \E id \in IdsOf(header) : \E body \in BodiesOf(header) :
       \E faults \in FaultsOfBody("updateRubric", header, body) : RubricPUT(header, id, body, faults)
  \/ \E header \in Headers : \E id \in IdsOf(header) : \E faults \in FaultsOf("deleteRubric", header) :
       RubricDELETE(header, id, faults)

\* The calls of the rubric store, one after another
SpecRubrics == InitRubrics /\ [][NextRubrics]_vars

(***************************************************************************)
(* Vocabulary of the properties.                                           *)
(***************************************************************************)
Responded == pc = "responded"
DocCount == Len(extraction)

\* What extraction of document i yields, whether or not its promise has settled
ExtractionOf(i) == toParsedProposal(collectedFiles[i], i - 1)
EmptyExtraction(i) ==
  ~ExtractionOf(i).ok /\ ExtractionOf(i).message = "No readable text found in the uploaded file"

HasReview(i) == task[i].state = "settled" /\ "review" \in DOMAIN task[i].result
HasError(i) == task[i].state = "settled" /\ "error" \in DOMAIN task[i].result

\* The reviews and the per-document errors a response carries
ResponseReviews == IF "reviews" \in DOMAIN response.body THEN response.body.reviews ELSE <<>>
ResponseErrors ==
  IF "errors" \in DOMAIN response.body THEN response.body.errors
  ELSE IF "details" \in DOMAIN response.body THEN response.body.details
  ELSE <<>>
\* The number of errors a response reports: its error list, or else its one message
ReportedErrorCount ==
  IF ResponseErrors # <<>> THEN Len(ResponseErrors)
  ELSE IF "error" \in DOMAIN response.body THEN 1 ELSE 0
HardFailure == Responded /\ response.status >= 400 /\ ResponseReviews = <<>>

\* The payload a settled completion hands to the normalizer
FirstChoice(c) ==
  LET choices == Get(c.payload, "choices")
  IN  IF IsArray(choices) /\ Len(choices.v) > 0 THEN choices.v[1] ELSE Undefined
PreParsedOf(c) == Get(Get(FirstChoice(c), "message"), "parsed")
ContentOf(c) ==
  LET content == Get(Get(FirstChoice(c), "message"), "content")
  IN  IF IsString(content) THEN content.v ELSE ""
UpstreamPayload(c) ==
  IF ~Nullish(PreParsedOf(c)) THEN PreParsedOf(c) ELSE extractJson(ContentOf(c)).value

\* The number of maximal runs of non-whitespace characters of a text
TokenCount(text) ==
  Cardinality({k \in 1..Len(text) :
                 ~IsSpace(Ch(text, k)) /\ (k = 1 \/ IsSpace(Ch(text, k - 1)))})

\* The documents a list of uploads expands to: one per uploaded file, and one
\* per pdf or docx file entry of an uploaded archive
RetainedEntries(entries) ==
  {k \in 1..Len(entries) :
     ~entries[k].dir /\ ToLower(ExtName(entries[k].name)) \in {".pdf", ".docx"}}
RECURSIVE ExpandedCount(_)
ExpandedCount(files) ==
  IF files = <<>> THEN 0
  ELSE LET f == Head(files)
       IN  (IF ~f.isFile THEN 0
            ELSE IF f.buffer.archive THEN Cardinality(RetainedEntries(f.buffer.entries))
            ELSE 1) + ExpandedCount(Tail(files))

\* The batch preconditions: a rubric, at least one file, at most 12 documents
PreconditionViolated ==
  \/ ~request.wellFormed
  \/ ~IsString(request.rubricText)
  \/ Trim(request.rubricText.v) = ""
  \/ ExpandedCount(request.files) = 0
  \/ ExpandedCount(request.files) > MAX_PROPOSALS

(***************************************************************************)
(* C1.  Batch isolation at the extraction stage: when exactly one of       *)
(* N >= 2 documents yields empty extracted text and no other document      *)
(* fails, the outcome holds N-1 reviews and exactly one error, the failing *)
(* document's, and no review of that document.                             *)
(* The handler awaits all extractions with one Promise.all inside the      *)
(* outer try, so the empty document's rejection ends the request.          *)
(***************************************************************************)
C1_BatchIsolation ==
  (/\ Responded
   /\ DocCount >= 2
   /\ Cardinality({i \in Docs : EmptyExtraction(i)}) = 1
   /\ \A i \in Docs : ~EmptyExtraction(i) => ExtractionOf(i).ok /\ ~HasError(i))
  => /\ response.status = 200
     /\ Len(ResponseReviews) = DocCount - 1
     /\ Len(ResponseErrors) = 1
     /\ \A i \in Docs : EmptyExtraction(i) =>
          /\ ~HasReview(i)
          /\ ResponseErrors[1].filename = collectedFiles[i].filename

(***************************************************************************)
(* C2.  Zero-success rule at the extraction stage: when all N >= 1         *)
(* documents fail text extraction, the outcome is a hard failure that      *)
(* carries N errors, one per document, and no review.                      *)
(* The response carries the message of the first rejection only.           *)
(***************************************************************************)
C2_ZeroSuccessAtExtraction ==
  (/\ Responded
   /\ DocCount >= 1
   /\ \A i \in Docs : ~ExtractionOf(i).ok)
  => /\ HardFailure
     /\ ReportedErrorCount = DocCount

(***************************************************************************)
(* C3.  Per-document accounting: when every document of the batch          *)
(* extracted, the response is built only after every review task settled,  *)
(* each document has exactly one of a review and an error, the reviews and *)
(* errors of the response are those of the documents (so their numbers sum *)
(* to N), and each document's result is the one its own proposal and its   *)
(* own completion determine.                                               *)
(***************************************************************************)
C3_PerDocumentAccounting ==
  /\ \A i \in Docs : task[i].state = "settled" =>
       /\ HasReview(i) # HasError(i)
       /\ task[i].result = ReviewTask(ExtractionOf(i).value, task[i].completion)
  /\ (Responded /\ DocCount >= 1 /\ \A i \in Docs : extraction[i].state = "fulfilled")
     => /\ \A i \in Docs : task[i].state = "settled"
        /\ Len(ResponseReviews) + Len(ResponseErrors) = DocCount
        /\ Len(ResponseReviews) = Cardinality({i \in Docs : HasReview(i)})
        /\ Len(ResponseErrors) = Cardinality({i \in Docs : HasError(i)})
        /\ \A i \in Docs :
             /\ HasReview(i) => \E k \in 1..Len(ResponseReviews) :
                                  ResponseReviews[k] = task[i].result.review
             /\ HasError(i) => \E k \in 1..Len(ResponseErrors) :
                                 ResponseErrors[k] = task[i].result.error

\* A batch that answered with reviews and errors side by side
C3_Witness ==
  /\ Responded
  /\ DocCount >= 2
  /\ \E i, j \in Docs : HasReview(i) /\ HasError(j)
  /\ response.status = 200

(***************************************************************************)
(* C4.  Batch-level decision: a response given when no document produced a *)
(* review is a hard failure, never a success with an empty list of         *)
(* reviews, and carries every per-document error that was collected; a     *)
(* response given when at least one document produced a review is a        *)
(* success with all the reviews and with the errors of the other           *)
(* documents.                                                              *)
(***************************************************************************)
C4_BatchDecision ==
  Responded =>
    LET settled == [i \in Docs |-> IF task[i].state = "settled" THEN task[i].result
                                   ELSE [pending |-> TRUE]]
    IN  IF \A i \in Docs : ~HasReview(i)
        THEN /\ HardFailure
             /\ "reviews" \notin DOMAIN response.body
             /\ ResponseErrors = ErrorsOf(settled)
        ELSE /\ response.status = 200
             /\ response.body.reviews = ReviewsOf(settled)
             /\ ResponseErrors = ErrorsOf(settled)

\* Every document of a batch of two or more failed at the completion stage
C4_Witness ==
  /\ Responded
  /\ response.status = 502
  /\ Len(ResponseErrors) >= 2
  /\ Len(ResponseErrors) = DocCount

(***************************************************************************)
(* C5.  Batch ceiling: a request whose uploads expand to more than 12      *)
(* documents (uploaded files plus retained archive entries) is answered    *)
(* with a hard failure in the handler's first step, with no extraction     *)
(* started and no completion call made; a request that expands to exactly  *)
(* 12 documents has all 12 extractions started and, when they all succeed, *)
(* one completion call made per document and all 12 documents in the       *)
(* response.                                                               *)
(***************************************************************************)
C5_BatchCeiling ==
  /\ (pc # "received" /\ ExpandedCount(request.files) > MAX_PROPOSALS)
     => /\ HardFailure
        /\ extraction = <<>>
        /\ llmCalls = <<>>
  /\ (pc # "received" /\ ~PreconditionViolated
        /\ ExpandedCount(request.files) = MAX_PROPOSALS)
     => /\ DocCount = MAX_PROPOSALS
        /\ (Responded /\ \A i \in Docs : extraction[i].state = "fulfilled")
           => /\ \A i \in Docs : llmCalls[i] = 1
              /\ Len(ResponseReviews) + Len(ResponseErrors) = MAX_PROPOSALS

\* An archive of 11 proposals and one uploaded file, all 12 reviewed
C5_Witness ==
  /\ Responded
  /\ ExpandedCount(request.files) = MAX_PROPOSALS
  /\ Len(request.files) = 2
  /\ response.status = 200
  /\ Len(ResponseReviews) = MAX_PROPOSALS

(***************************************************************************)
(* C6.  Abort policy: a request is answered without a per-document outcome *)
(* (neither reviews nor a per-document error list) only when a batch       *)
(* precondition is violated (malformed form, missing or blank rubric, no   *)
(* document, more than 12 documents); an error of a single document never  *)
(* ends the request.                                                       *)
(* An upload of an unsupported type ends the request in the collection     *)
(* loop, and a document that fails extraction ends it through the outer    *)
(* catch.                                                                  *)
(***************************************************************************)
C6_AbortPolicy ==
  (Responded /\ ResponseReviews = <<>> /\ "details" \notin DOMAIN response.body)
  => PreconditionViolated

(***************************************************************************)
(* C7.  Normalizer totality and schema conformance: whatever value the     *)
(* completion carries as its payload, the task yields a review, and every  *)
(* review has exactly the fields of ReviewResult with id and filename      *)
(* strings, wordCount the proposal's, overallVerdict pass or fail,         *)
(* overallFeedback non-empty, criteria with non-empty name, result pass or *)
(* fail and non-empty explanation, and strengths and improvements          *)
(* non-blank strings.                                                      *)
(***************************************************************************)
ConformantCriterion(c) ==
  /\ DOMAIN c = {"name", "result", "explanation"}
  /\ c.name \in STRING /\ c.name # ""
  /\ c.result \in {"pass", "fail"}
  /\ c.explanation \in STRING /\ c.explanation # ""

ConformantReview(r, proposal) ==
  /\ DOMAIN r = {"id", "filename", "wordCount", "overallVerdict", "overallFeedback",
                 "criteria", "notableStrengths", "recommendedImprovements"}
  /\ r.id \in STRING
  /\ r.filename \in STRING
  /\ r.wordCount = proposal.wordCount
  /\ r.overallVerdict \in {"pass", "fail"}
  /\ r.overallFeedback \in STRING /\ r.overallFeedback # ""
  /\ \A k \in 1..Len(r.criteria) : ConformantCriterion(r.criteria[k])
  /\ \A k \in 1..Len(r.notableStrengths) :
       r.notableStrengths[k] \in STRING /\ Trim(r.notableStrengths[k]) # ""
  /\ \A k \in 1..Len(r.recommendedImprovements) :
       r.recommendedImprovements[k] \in STRING /\ Trim(r.recommendedImprovements[k]) # ""

C7_NormalizerTotal ==
  \A i \in Docs : task[i].state = "settled" =>
    LET c == task[i].completion
    IN  /\ (c.kind = "resolve" /\ ~Nullish(PreParsedOf(c)) /\ ContentOf(c) # "")
           => HasReview(i)
        /\ HasReview(i) => ConformantReview(task[i].result.review, extraction[i].proposal)

\* A payload whose criteria hold non-objects and objects with missing, blank
\* and wrongly typed fields, normalized to the five criteria that are objects
C7_Witness ==
  \E i \in Docs :
    /\ HasReview(i)
    /\ task[i].completion.kind = "resolve"
    /\ IsArray(Get(PreParsedOf(task[i].completion), "criteria"))
    /\ Len(Get(PreParsedOf(task[i].completion), "criteria").v) = 8
    /\ Len(task[i].result.review.criteria) = 5

C9_WordCountAuthoritative ==
  \A i \in Docs : HasReview(i) =>
    task[i].result.review.wordCount = TokenCount(extraction[i].proposal.text)

\* A review of the five-word document whose payload says wordCount 1
C9_Witness ==
  \E i \in Docs :
    /\ HasReview(i)
    /\ Get(UpstreamPayload(task[i].completion), "wordCount") = JNum(1)
    /\ task[i].result.review.wordCount = 5

(***************************************************************************)
(* C10.  Verdict rule: a review's overallVerdict is pass exactly when the  *)
(* payload is an object whose overallVerdict is the string "pass"; any     *)
(* other value, an absent field and a non-object payload give fail.        *)
(***************************************************************************)
C10_VerdictRule ==
  \A i \in Docs : HasReview(i) =>
    LET upstream == UpstreamPayload(task[i].completion)
        review == task[i].result.review
    IN  /\ review.overallVerdict \in {"pass", "fail"}
        /\ review.overallVerdict = "pass"
           <=> (upstream.t = "obj" /\ \E k \in 1..Len(upstream.v) :
                  /\ upstream.v[k].k = "overallVerdict"
                  /\ upstream.v[k].v = JStr("pass")
                  /\ \A m \in (k + 1)..Len(upstream.v) : upstream.v[m].k # "overallVerdict")

\* A payload whose verdict is " pass " is reviewed as fail
C10_Witness ==
  \E i \in Docs :
    /\ HasReview(i)
    /\ Get(UpstreamPayload(task[i].completion), "overallVerdict") = JStr(" pass ")
    /\ task[i].result.review.overallVerdict = "fail"

(***************************************************************************)
(* C11.  recommendedImprovements is never empty: a review holds the        *)
(* payload's non-blank string elements of recommendedImprovements,         *)
(* trimmed, in their order, and nothing else; when there is none (the      *)
(* field is missing, not an array, or holds no non-blank string) it holds  *)
(* exactly one synthesized message: "Unable to parse review output." when  *)
(* the payload is not an object at all, and otherwise the message chosen   *)
(* by overallVerdict.                                                      *)
(***************************************************************************)
\* The non-blank strings of an array value, trimmed, in their order
NonBlankStrings(field) ==
  IF field.t # "arr" THEN <<>>
  ELSE LET kept == SelectSeq(field.v, LAMBDA x : x.t = "str" /\ Trim(x.v) # "")
       IN  [k \in 1..Len(kept) |-> Trim(kept[k].v)]

VerdictMessage(verdict) ==
  IF verdict = "pass" THEN "No immediate improvements recommended."
  ELSE "Address the failed criteria with specific evidence."

C11_ImprovementsNeverEmpty ==
  \A i \in Docs : HasReview(i) =>
    LET upstream == UpstreamPayload(task[i].completion)
        supplied == NonBlankStrings(Get(upstream, "recommendedImprovements"))
        review == task[i].result.review
    IN  /\ review.recommendedImprovements # <<>>
        /\ review.recommendedImprovements =
             IF supplied # <<>> THEN supplied
             ELSE IF upstream.t \notin {"obj", "arr"} THEN <<"Unable to parse review output.">>
             ELSE <<VerdictMessage(review.overallVerdict)>>

\* A review that keeps the two non-blank strings of five supplied elements
C11_Witness ==
  \E i \in Docs :
    /\ HasReview(i)
    /\ IsArray(Get(UpstreamPayload(task[i].completion), "recommendedImprovements"))
    /\ Len(Get(UpstreamPayload(task[i].completion), "recommendedImprovements").v) = 5
    /\ task[i].result.review.recommendedImprovements = <<"Clear scope", "pass">>

\* C11 as first stated: the one synthesized message is always the one chosen
\* by overallVerdict
C11_MessageChosenByVerdict ==
  \A i \in Docs : HasReview(i) =>
    LET supplied == NonBlankStrings(Get(UpstreamPayload(task[i].completion),
                                        "recommendedImprovements"))
        review == task[i].result.review
    IN  review.recommendedImprovements =
          IF supplied # <<>> THEN supplied ELSE <<VerdictMessage(review.overallVerdict)>>

(***************************************************************************)
(* C12.  Unparseable model output becomes a ReviewError: when a completion *)
(* has no pre-parsed payload and the strict parse of its content, the      *)
(* parse of its repaired content and the parse of its text from the first  *)
(* "{" to the last "}" all fail, the document gets an error whose message  *)
(* is the strict parse's, and no review; when one of them succeeds the     *)
(* document gets a review of the parsed value, which for a value that is   *)
(* not an object (null, boolean, number, string) is the fixed failing      *)
(* review "The model returned an invalid response.".                       *)
(***************************************************************************)
\* The three parse strategies, each on its own
StrictParses(content) == JsonParse(content).ok
RepairParses(content) ==
  jsonrepair(content).ok /\ JsonParse(jsonrepair(content).value).ok
BracesParse(content) ==
  \E a, b \in 1..Len(content) :
    /\ a < b
    /\ Ch(content, a) = "{" /\ \A k \in 1..(a - 1) : Ch(content, k) # "{"
    /\ Ch(content, b) = "}" /\ \A k \in (b + 1)..Len(content) : Ch(content, k) # "}"
    /\ JsonParse(SubSeq(content, a, b)).ok

\* A completion that resolved with content to parse and no pre-parsed payload
ContentOnly(c) ==
  /\ c.kind = "resolve"
  /\ FirstChoice(c) # Undefined
  /\ Nullish(PreParsedOf(c))
  /\ ContentOf(c) # ""

C12_UnparseableIsError ==
  \A i \in Docs : (task[i].state = "settled" /\ ContentOnly(task[i].completion)) =>
    LET content == ContentOf(task[i].completion)
    IN  IF ~StrictParses(content) /\ ~RepairParses(content) /\ ~BracesParse(content)
        THEN /\ HasError(i) /\ ~HasReview(i)
             /\ task[i].result.error.message = JsonParse(content).message
             /\ task[i].result.error.filename = extraction[i].proposal.filename
        ELSE /\ HasReview(i) /\ ~HasError(i)
             /\ UpstreamPayload(task[i].completion).t \notin {"obj", "arr"}
                => /\ task[i].result.review.overallVerdict = "fail"
                   /\ task[i].result.review.overallFeedback
                        = "The model returned an invalid response."

\* The content " }" fails all three strategies and is recorded as an error
\* with the strict parse's message
C12_Witness ==
  \E i \in Docs :
    /\ HasError(i)
    /\ ContentOnly(task[i].completion)
    /\ ContentOf(task[i].completion) = " }"
    /\ task[i].result.error.message = "Unexpected token } in JSON at position 1"

\* C12 as first stated: a review is produced only from a payload that parsed
\* to a JSON object
C12_ReviewOnlyFromObject ==
  \A i \in Docs : (HasReview(i) /\ ContentOnly(task[i].completion)) =>
    UpstreamPayload(task[i].completion).t = "obj"

(***************************************************************************)
(* C13.  Repair equivalence: when a completion's content fails the strict  *)
(* parse and is the text of a JSON object with minor defects (unquoted     *)
(* keys, trailing commas), the document's review equals, field for field,  *)
(* the review the same document gets from the valid text of that object.   *)
(***************************************************************************)
ContentAnswer(text) == Answer(JObj(<<KV("content", JStr(text))>>))

C13_RepairEquivalence ==
  \A i \in Docs : (task[i].state = "settled" /\ ContentOnly(task[i].completion)) =>
    \A raw \in {x \in RawSamples : x.t = "obj"} :
      (/\ ContentOf(task[i].completion) = DefectiveText(raw)
       /\ ~StrictParses(DefectiveText(raw))
       /\ StrictParses(Stringify(raw)))
      => /\ HasReview(i)
         /\ task[i].result
              = ReviewTask(extraction[i].proposal, ContentAnswer(Stringify(raw)))
         /\ task[i].result.review = normalizeReview(raw, extraction[i].proposal)

\* The content with unquoted keys and a trailing comma is reviewed with its
\* one criterion, failed, as its valid equivalent is
C13_Witness ==
  \E i \in Docs :
    /\ HasReview(i)
    /\ \E raw \in RawSamples :
         /\ raw.t = "obj" /\ Len(raw.v) = 8
         /\ ContentOf(task[i].completion) = DefectiveText(raw)
         /\ ~StrictParses(DefectiveText(raw))
         /\ Len(Get(raw, "criteria").v) = 1
    /\ Len(task[i].result.review.criteria) = 1
    /\ task[i].result.review.criteria[1].result = "fail"

(***************************************************************************)
(* C14.  Empty-response classification: a completion with neither a parsed *)
(* payload nor content yields one error and no review for its document,    *)
(* with the message chosen by precedence: finish reason content_filter,    *)
(* else finish reason length, else the provider's error object (its        *)
(* message, or its code), else the generic message with the model          *)
(* identifier, extended with the finish reason when there is one.          *)
(***************************************************************************)
FinishReasonOf(c) == Get(FirstChoice(c), "finish_reason")
ProviderError(c) == Get(c.payload, "error")

EmptyCompletion(c) ==
  /\ c.kind = "resolve"
  /\ Nullish(PreParsedOf(c))
  /\ ContentOf(c) = ""

ClassifiedMessage(c) ==
  LET generic == "Model returned an empty response (model: " \o REVIEW_MODEL \o ")"
  IN  IF FinishReasonOf(c) = JStr("content_filter")
      THEN "Content was filtered by the model (model: " \o REVIEW_MODEL
             \o "). The proposal may contain flagged content."
      ELSE IF FinishReasonOf(c) = JStr("length")
      THEN "Response was cut off due to length limits (model: " \o REVIEW_MODEL
             \o "). Try reducing proposal size."
      ELSE IF ProviderError(c).t = "obj"
      THEN "Model error: "
             \o (IF IsString(Get(ProviderError(c), "message"))
                 THEN Get(ProviderError(c), "message").v
                 ELSE ToText(Get(ProviderError(c), "code")))
      ELSE IF IsString(FinishReasonOf(c))
      THEN generic \o ". Finish reason: " \o FinishReasonOf(c).v
      ELSE generic

C14_EmptyResponseClassification ==
  \A i \in Docs : (task[i].state = "settled" /\ EmptyCompletion(task[i].completion)) =>
    /\ HasError(i)
    /\ ~HasReview(i)
    /\ task[i].result.error.message = ClassifiedMessage(task[i].completion)

\* The same, for the completions whose payload has a choices array
C14_ClassificationWithChoices ==
  \A i \in Docs :
    (/\ task[i].state = "settled"
     /\ EmptyCompletion(task[i].completion)
     /\ IsArray(Get(task[i].completion.payload, "choices"))) =>
    /\ HasError(i)
    /\ ~HasReview(i)
    /\ task[i].result.error.message = ClassifiedMessage(task[i].completion)

(***************************************************************************)
(* C15.  No automatic retry: within one request the provider is called at  *)
(* most once for each document; a document whose callback has settled,     *)
(* with a review or with an error (the call threw, the response was empty, *)
(* the content could not be parsed), was called exactly once, and a        *)
(* document never reached by the review stage was not called at all.       *)
(***************************************************************************)
C15_NoRetry ==
  \A i \in Docs :
    /\ llmCalls[i] <= 1
    /\ task[i].state \in {"awaiting", "settled"} => llmCalls[i] = 1
    /\ task[i].state = "idle" => llmCalls[i] = 0

\* Two documents fail, one because the call threw and one on unparseable
\* content; each was called once and the response carries both errors
C15_Witness ==
  /\ Responded
  /\ DocCount = 2
  /\ HasError(1) /\ task[1].completion.kind = "reject"
  /\ HasError(2) /\ ContentOnly(task[2].completion)
  /\ llmCalls = <<1, 1>>
  /\ Len(ResponseErrors) = 2

(***************************************************************************)
(* C16.  Await-all join: the response of a request is produced only after  *)
(* every per-document pipeline of the batch has settled; when the response *)
(* exists no document's extraction is still pending and no document's      *)
(* completion call is still awaited.                                       *)
(***************************************************************************)
PipelinePending(i) == extraction[i].state = "pending" \/ task[i].state = "awaiting"

C16_AwaitAllJoin == Responded => \A i \in Docs : ~PipelinePending(i)

\* The same, for the review stage alone: a response that follows the start of
\* the review callbacks finds every callback settled
C16_JoinAfterReviews ==
  (Responded /\ \E i \in Docs : task[i].state # "idle") =>
    \A i \in Docs : task[i].state = "settled"

(***************************************************************************)
(* C17.  A hung provider call stalls only its own document: once the       *)
(* review callbacks have started, eventually no document is left awaiting  *)
(* its call - each one has a review or an error, or is itself the document *)
(* of a call that never returns - whatever the other calls do; and a       *)
(* request whose calls have been made eventually has its response unless   *)
(* one of its calls never returns.                                         *)
(***************************************************************************)
Hung(i) == task[i].state = "hung"

C17_HungCallStallsOnlyItself ==
  /\ (pc = "reviewing") ~> (\A i \in Docs : HasReview(i) \/ HasError(i) \/ Hung(i))
  /\ (pc = "reviewing") ~> (Responded \/ \E i \in Docs : Hung(i))

\* The first document's call never returns and the second document has its
\* review, while the request has no response
C17_Witness ==
  /\ DocCount = 2
  /\ Hung(1)
  /\ HasReview(2)
  /\ ~Responded

(***************************************************************************)
(* C18.  Archive expansion: the files collected from an uploaded archive   *)
(* are, in the archive's order, one per entry that is not a directory and  *)
(* whose extension, compared case-insensitively, is .pdf or .docx, each    *)
(* with the entry's basename as its file name and the entry's bytes as its *)
(* buffer; every other entry is skipped and the expansion raises no error. *)
(* The extension of an entry is the part of its basename from the last dot *)
(* on, and is empty when the basename has no dot or begins with its only   *)
(* dot.                                                                    *)
(***************************************************************************)
EntryBasename(name) == SubSeq(name, LastIndexOf(name, "/") + 1, Len(name))
EntryExtension(name) ==
  LET dot == LastIndexOf(EntryBasename(name), ".")
  IN  IF dot <= 1 THEN ""
      ELSE ToLower(SubSeq(EntryBasename(name), dot, Len(EntryBasename(name))))
IsProposalEntry(entry) == ~entry.dir /\ EntryExtension(entry.name) \in {".pdf", ".docx"}

ExpectedExpansion(entries) ==
  LET kept == SelectSeq(entries, IsProposalEntry)
  IN  [k \in 1..Len(kept) |->
         [filename |-> EntryBasename(kept[k].name), buffer |-> kept[k].buffer]]

UploadedEntries == request.files[1].buffer.entries

C18_ArchiveExpansion ==
  (pc # "received" /\ Len(request.files) = 1 /\ request.files[1].buffer.archive) =>
    /\ [k \in 1..Len(collectedFiles) |->
          [filename |-> collectedFiles[k].filename, buffer |-> collectedFiles[k].buffer]]
         = ExpectedExpansion(UploadedEntries)
    /\ Len(collectedFiles) = Cardinality({k \in 1..Len(UploadedEntries) :
                                            IsProposalEntry(UploadedEntries[k])})
    /\ Len(collectedFiles) > 0 => DocCount = Len(collectedFiles)
    /\ Len(collectedFiles) = 0 =>
         response = Json(400, [error |-> "No PDF or DOCX proposals were found in the upload."])

\* The archive of three proposals and two other files expands to the three
\* proposals, named by their basenames
C18_Witness ==
  /\ pc = "extracting"
  /\ UploadedEntries = MixedArchive
  /\ Len(collectedFiles) = 3
  /\ [k \in 1..3 |-> collectedFiles[k].filename] = <<"a.pdf", "b.docx", "C.PDF">>

(***************************************************************************)
(* C19.  Extractor guarantees: the extraction of a document either fails   *)
(* or yields a text that is not empty and is clean (no carriage return, no *)
(* run of three newlines, no white space at either end).  It fails exactly *)
(* when the buffer is empty, or larger than 5 MiB (a buffer of exactly     *)
(* 5 MiB is accepted), or its MIME type and extension resolve to no        *)
(* supported format, or the document cannot be read, or its text is white  *)
(* space only; so no proposal with an empty text reaches the review stage. *)
(***************************************************************************)
FiveMiB == 5 * 1024 * 1024

ResolvesToFormat(file) ==
  \/ ToLower(file.mimetype) \in {"application/pdf", DocxMime, "application/octet-stream",
                                 "text/plain"}
  \/ EntryExtension(file.filename) \in {".pdf", ".docx", ".txt"}

OnlyWhiteSpace(text) == \A k \in 1..Len(text) : IsSpace(Ch(text, k))

C19_ExtractorGuarantees ==
  \A i \in Docs : extraction[i].state # "pending" =>
    LET file == collectedFiles[i]
        size == file.buffer.byteLength
    IN  /\ extraction[i].state = "rejected"
             <=> \/ size = 0
                 \/ size > FiveMiB
                 \/ ~ResolvesToFormat(file)
                 \/ ~file.buffer.readable
                 \/ OnlyWhiteSpace(file.buffer.text)
        /\ size = 0 => extraction[i].message = "Uploaded file is empty"
        /\ size > FiveMiB => extraction[i].message = "File size exceeds the 5MB limit"
        /\ (size \in 1..FiveMiB /\ ~ResolvesToFormat(file))
             => extraction[i].message = "Unsupported file type. Upload a PDF, DOCX, or TXT file"
        /\ extraction[i].state = "fulfilled" =>
             /\ extraction[i].proposal.text # ""
             /\ Trim(extraction[i].proposal.text) = extraction[i].proposal.text
             /\ ~Includes(extraction[i].proposal.text, "\r")
             /\ ~Includes(extraction[i].proposal.text, "\n\n\n")
        /\ task[i].state # "idle" => extraction[i].proposal.text # ""

\* A document of exactly 5 MiB is extracted, to its cleaned text, beside one
\* of a byte more that is refused
C19_Witness ==
  /\ DocCount = 2
  /\ collectedFiles[1].buffer.byteLength = FiveMiB
  /\ extraction[1].state = "fulfilled"
  /\ extraction[1].proposal.text = "Phase one\n\nPhase  two"
  /\ collectedFiles[2].buffer.byteLength = FiveMiB + 1
  /\ extraction[2].state = "rejected"

(***************************************************************************)
(* C20.  Prompt truncation: the user message of a document's review        *)
(* request embeds, between the opening and the closing of its text block,  *)
(* the extracted text unchanged when the text has at most 12,000           *)
(* characters, and otherwise the first 12,000 characters of the text       *)
(* followed by the truncation notice; the notice is there if and only if   *)
(* the text was cut, and at most 12,000 characters of the text are sent.   *)
(***************************************************************************)
TextBlockOpening == "\n\nExtracted proposal text (may be truncated):\n\"\"\"\n"
TextBlockClosing == "\n\"\"\"\n\nReturn JSON shaped as:\n"
TruncationNotice == "\n\n[Excerpt truncated to stay within token limits]"

EmbeddedText(prompt) ==
  SubSeq(prompt, IndexOf(prompt, TextBlockOpening) + Len(TextBlockOpening),
         LastIndexOf(prompt, TextBlockClosing) - 1)

C20_PromptTruncation ==
  \A i \in Docs : task[i].state = "awaiting" =>
    LET text == extraction[i].proposal.text
        Embeds(embedded) ==
          /\ Len(text) <= 12000 => embedded = text
          /\ Len(text) > 12000 => embedded = SubSeq(text, 1, 12000) \o TruncationNotice
          /\ EndsWith(embedded, TruncationNotice) <=> Len(text) > 12000
          /\ Len(embedded) <= 12000 + Len(TruncationNotice)
    IN  /\ IndexOf(task[i].prompt, TextBlockOpening) > 0
        /\ Embeds(EmbeddedText(task[i].prompt))

\* A text of 12,001 characters is sent without its last character and with
\* the notice
C20_Witness ==
  \E i \in Docs :
    /\ task[i].state = "awaiting"
    /\ Len(extraction[i].proposal.text) = 12001
    /\ Len(EmbeddedText(task[i].prompt)) = 12000 + Len(TruncationNotice)
    /\ SubSeq(EmbeddedText(task[i].prompt), 11999, 12000) = "a "

(***************************************************************************)
(* C26.  Parse strategy order: the value handed to the normalizer is the   *)
(* result of the first strategy that succeeds, in the order strict parse   *)
(* of the content, repair followed by strict parse of the repaired text,   *)
(* strict parse of the text from the first "{" to the last "}"; when all   *)
(* three fail no review is produced; and when the completion carries a     *)
(* pre-parsed payload the review is made from that payload whatever the    *)
(* content is.                                                             *)
(***************************************************************************)
\* The text from the first "{" to the last "}"
BracesText(content) == SubSeq(content, IndexOf(content, "{"), LastIndexOf(content, "}"))

\* A completion that resolved with a pre-parsed payload and is not taken for
\* an empty response
PreParsed(c) ==
  /\ c.kind = "resolve"
  /\ FirstChoice(c) # Undefined
  /\ ~Nullish(PreParsedOf(c))
  /\ Truthy(PreParsedOf(c)) \/ ContentOf(c) # ""

C26_ParseStrategyOrder ==
  \A i \in Docs : task[i].state = "settled" =>
    LET ReviewedAs(content, value) ==
          /\ extractJson(content) = Ok(value)
          /\ HasReview(i)
          /\ task[i].result.review = normalizeReview(value, extraction[i].proposal)
        FromContent(content) ==
          IF StrictParses(content) THEN ReviewedAs(content, JsonParse(content).value)
          ELSE IF RepairParses(content)
          THEN ReviewedAs(content, JsonParse(jsonrepair(content).value).value)
          ELSE IF BracesParse(content)
          THEN ReviewedAs(content, JsonParse(BracesText(content)).value)
          ELSE ~extractJson(content).ok /\ HasError(i)
    IN  /\ ContentOnly(task[i].completion) => FromContent(ContentOf(task[i].completion))
        /\ PreParsed(task[i].completion)
             => /\ HasReview(i)
                /\ task[i].result.review
                     = normalizeReview(PreParsedOf(task[i].completion), extraction[i].proposal)

\* A content that the strict parse rejects and that the repair and the brace
\* strategy read differently (an array, an object) is reviewed as the repair
\* reads it
C26_Witness ==
  \E i \in Docs :
    /\ HasReview(i)
    /\ ContentOnly(task[i].completion)
    /\ ContentOf(task[i].completion) = "[{\"overallVerdict\": \"pass\"},]"
    /\ ~StrictParses(ContentOf(task[i].completion))
    /\ RepairParses(ContentOf(task[i].completion))
    /\ JsonParse(BracesText(ContentOf(task[i].completion))).value.t = "obj"
    /\ task[i].result.review.overallVerdict = "fail"

(***************************************************************************)
(* C27.  Criteria normalization: a review made from a payload whose        *)
(* criteria value is not an array has no criteria; otherwise it has one    *)
(* criterion per element of that array that is an object (an array counts  *)
(* as one, as typeof does; null, strings, numbers and booleans are         *)
(* dropped), in the order of the array.  A criterion's result is pass      *)
(* exactly when the element's result is the string "pass"; its name is the *)
(* element's name trimmed, or "Unnamed criterion" when that is missing,    *)
(* not a string or blank; its explanation is the element's explanation     *)
(* trimmed, or, when that is missing, not a string or blank, the fixed     *)
(* sentence of the criterion's result.                                     *)
(***************************************************************************)
IsObjectElement(x) == x.t \in {"obj", "arr"}

\* What one element of the criteria array must become
ExpectedCriterion(element, criterion) ==
  LET name == Get(element, "name")
      explanation == Get(element, "explanation")
  IN  /\ criterion.result \in {"pass", "fail"}
      /\ criterion.result = "pass" <=> Get(element, "result") = JStr("pass")
      /\ criterion.name =
           (IF name.t = "str" /\ \E k \in 1..Len(name.v) : ~IsSpace(Ch(name.v, k))
            THEN Trim(name.v) ELSE "Unnamed criterion")
      /\ criterion.explanation =
           (IF explanation.t = "str"
                 /\ \E k \in 1..Len(explanation.v) : ~IsSpace(Ch(explanation.v, k))
            THEN Trim(explanation.v)
            ELSE IF criterion.result = "pass" THEN "Criterion appears satisfied."
            ELSE "Criterion appears unmet or lacks evidence.")

C27_CriteriaNormalization ==
  \A i \in Docs : HasReview(i) =>
    LET Matches(field, criteria) ==
          IF field.t # "arr" THEN criteria = <<>>
          ELSE LET kept == {k \in 1..Len(field.v) : IsObjectElement(field.v[k])}
                   Rank(k) == Cardinality({j \in kept : j <= k})
               IN  /\ Len(criteria) = Cardinality(kept)
                   /\ \A k \in kept : ExpectedCriterion(field.v[k], criteria[Rank(k)])
    IN  Matches(Get(UpstreamPayload(task[i].completion), "criteria"),
                task[i].result.review.criteria)

\* A criteria array of eight elements, three of them not objects, gives five
\* criteria: the blank name is replaced, "PASS" is a fail, and the blank
\* explanation is replaced by the sentence of a fail
C27_Witness ==
  \E i \in Docs :
    /\ HasReview(i)
    /\ Get(UpstreamPayload(task[i].completion), "criteria").t = "arr"
    /\ Len(Get(UpstreamPayload(task[i].completion), "criteria").v) = 8
    /\ Len(task[i].result.review.criteria) = 5
    /\ task[i].result.review.criteria[3].name = "Unnamed criterion"
    /\ task[i].result.review.criteria[3].result = "pass"
    /\ task[i].result.review.criteria[4] =
         [name |-> "Unnamed criterion", result |-> "fail",
          explanation |-> "Criterion appears unmet or lacks evidence."]
    /\ task[i].result.review.criteria[5] =
         [name |-> "Budget", result |-> "fail", explanation |-> "No totals."]

(***************************************************************************)
(* C28.  Output order follows input order: in a response built from the    *)
(* settled review tasks, the documents are the uploads in upload order     *)
(* with the proposals of an archive in archive order in the archive's      *)
(* place, and the reviews list and the errors list each hold their         *)
(* documents' results in that order, in whatever order the completion      *)
(* calls settled.                                                          *)
(***************************************************************************)
\* The names of the documents a list of uploads expands to, in order
RECURSIVE ExpandedNames(_)
ExpandedNames(files) ==
  IF files = <<>> THEN <<>>
  ELSE (IF ~Head(files).isFile THEN <<>>
        ELSE IF Head(files).buffer.archive
        THEN [k \in 1..Len(ExpectedExpansion(Head(files).buffer.entries)) |->
                ExpectedExpansion(Head(files).buffer.entries)[k].filename]
        ELSE <<Head(files).name>>) \o ExpandedNames(Tail(files))

\* The place of document i among the documents of S
RankIn(S, i) == Cardinality({j \in S : j <= i})

C28_OutputOrder ==
  (Responded /\ DocCount > 0 /\ \A i \in Docs : task[i].state = "settled") =>
    LET reviewed == {i \in Docs : HasReview(i)}
        failed == {i \in Docs : HasError(i)}
    IN  /\ [i \in Docs |-> extraction[i].proposal.filename] = ExpandedNames(request.files)
        /\ \A i \in Docs : extraction[i].proposal.id = "proposal-" \o ToDecimal(i)
        /\ Len(ResponseReviews) = Cardinality(reviewed)
        /\ \A i \in reviewed : ResponseReviews[RankIn(reviewed, i)] = task[i].result.review
        /\ Len(ResponseErrors) = Cardinality(failed)
        /\ \A i \in failed :
             /\ ResponseErrors[RankIn(failed, i)] = task[i].result.error
             /\ ResponseErrors[RankIn(failed, i)].filename = ExpandedNames(request.files)[i]

\* An archive of three proposals uploaded before a pdf: the first and third
\* documents are reviewed, the second and fourth fail, and each list names
\* its documents in input order
C28_Witness ==
  /\ Responded
  /\ DocCount = 4 /\ \A i \in Docs : task[i].state = "settled"
  /\ [i \in Docs |-> extraction[i].proposal.filename]
       = <<"a.pdf", "b.docx", "C.PDF", "budget.pdf">>
  /\ HasReview(1) /\ HasError(2) /\ HasReview(3) /\ HasError(4)
  /\ Len(ResponseReviews) = 2
  /\ ResponseReviews[1].wordCount = 2 /\ ResponseReviews[2].wordCount = 2
  /\ [k \in 1..2 |-> ResponseErrors[k].filename] = <<"b.docx", "budget.pdf">>

(***************************************************************************)
(* C29.  Extraction barrier: a completion call has been issued for a       *)
(* document only when the text of every document of the request has been   *)
(* extracted; and when the extraction of some document fails, no           *)
(* completion call is made for any document of the request.                *)
(***************************************************************************)
\* A completion call has been issued for document i
CallIssued(i) == llmCalls[i] > 0 \/ task[i].state # "idle"

C29_ExtractionBarrier ==
  /\ \A i \in Docs : CallIssued(i) => \A j \in Docs : extraction[j].state = "fulfilled"
  /\ (\E j \in Docs : ~ExtractionOf(j).ok) => \A i \in Docs : ~CallIssued(i)
  /\ pc \in {"received", "extracting"} => \A i \in Docs : ~CallIssued(i)

\* The first document's text is extracted, the second document's extraction
\* fails, and the request is answered without a completion call
C29_Witness ==
  /\ Responded
  /\ DocCount = 2
  /\ extraction[1].state = "fulfilled"
  /\ extraction[2].state = "rejected"
  /\ \A i \in Docs : ~CallIssued(i)
  /\ response.status = 500

(***************************************************************************)
(* Vocabulary of the properties of the rubric store.                       *)
(***************************************************************************)
StoreDatabase == Database(rubrics, rubric_criteria)
\* The last call was a call of this store function by itself (DuckDB store)
DirectCall(fn) == call.route = "none" /\ call.fn = fn
\* A text that is missing or blank
BlankText(x) == ~IsString(x) \/ Trim(x.v) = ""
\* The defects of an input that the contract of the store names
WeightsOffTotal(input) ==
  /\ IsArray(input.criteria)
  /\ \A k \in 1..Len(input.criteria.v) :
       LET w == Get(input.criteria.v[k], "weight") IN w.t = "num"
  /\ TwiceTotalWeight(input.criteria.v) # 200
DefectiveInput(input) ==
  \/ BlankText(input.name)
  \/ BlankText(input.description)
  \/ ~IsArray(input.criteria)
  \/ Len(input.criteria.v) = 0
  \/ \E k \in 1..Len(input.criteria.v) : BlankText(Get(input.criteria.v[k], "label"))
  \/ \E k \in 1..Len(input.criteria.v) : Get(input.criteria.v[k], "weight").t # "num"
  \/ WeightsOffTotal(input)
StoreUnchanged == rubrics' = rubrics /\ rubric_criteria' = rubric_criteria

(***************************************************************************)
(* C21.  Every call of saveRubric or updateRubric with an input whose      *)
(* weights do not sum to 100, or with a blank name, a blank description,   *)
(* an empty criteria list, a blank label or a non-numeric weight, is       *)
(* rejected by the validation, and a call rejected by the validation       *)
(* leaves the rows of rubrics and of rubric_criteria as they were.         *)
(***************************************************************************)
C21_RejectedInputPersistsNothing ==
  [][call'.fn \in {"saveRubric", "updateRubric"} =>
       /\ DefectiveInput(call'.input) => ~call'.result.ok /\ call'.failed = "validation"
       /\ call'.failed = "validation" => ~call'.result.ok /\ StoreUnchanged]_vars

\* The owner of a stored rubric asks to update it with weights that sum to
\* 90: the call is rejected and the rubric is still stored
C21_Witness ==
  /\ call.fn = "updateRubric"
  /\ call.failed = "validation"
  /\ call.result.message = "Criterion weights must sum to 100"
  /\ WeightsOffTotal(call.input)
  /\ \E r \in rubrics : r.id = call.id /\ r.user_id = getUser("token-a")
  /\ call.header = JStr("Bearer token-a")

(***************************************************************************)
(* C22.  After saveRubric of the DuckDB store is called with a valid       *)
(* input and no statement fails, the call has returned a record with a     *)
(* generated id, and getRubricById with that id returns a rubric with the  *)
(* name of the input and with criteria whose (label, weight) pairs are the *)
(* input's, in the input's order, each with a generated id of its own.     *)
(***************************************************************************)
\* The (label, weight) pairs of an input and of a loaded rubric
InputPairs(input) ==
  [k \in 1..Len(input.criteria.v) |->
     <<Get(input.criteria.v[k], "label").v, Get(input.criteria.v[k], "weight")>>]
LoadedPairs(record) ==
  [k \in 1..Len(record.criteria) |-> <<record.criteria[k].label, JNum(record.criteria[k].weight)>>]
OwnGeneratedIds(record) ==
  /\ \A k \in 1..Len(record.criteria) : record.criteria[k].id > 0 /\ record.criteria[k].id # record.id
  /\ \A j, k \in 1..Len(record.criteria) : j # k => record.criteria[j].id # record.criteria[k].id
\* A valid input went through saveRubric without a failing statement
SavedValidInput ==
  /\ DirectCall("saveRubric")
  /\ ~DefectiveInput(call.input)
  /\ call.failed \in {"none", "validation"}

C22_SaveLoadRoundTrip ==
  SavedValidInput =>
    /\ call.result.ok
    /\ call.result.value.id > 0
    /\ \A loaded \in duckGetRubricById(StoreDatabase, call.result.value.id) :
         /\ loaded # NoRubric
         /\ loaded.name = call.input.name.v
         /\ LoadedPairs(loaded) = InputPairs(call.input)
         /\ OwnGeneratedIds(loaded)

\* What the code keeps of a valid input: the name and the labels trimmed,
\* the order and the ids, and every weight that is an integer
C22_TrimmedRoundTrip ==
  SavedValidInput =>
    /\ call.result.ok
    /\ call.result.value.id > 0
    /\ \A loaded \in duckGetRubricById(StoreDatabase, call.result.value.id) :
         /\ loaded # NoRubric
         /\ loaded.name = Trim(call.input.name.v)
         /\ Len(loaded.criteria) = Len(call.input.criteria.v)
         /\ \A k \in 1..Len(loaded.criteria) :
              /\ LoadedPairs(loaded)[k][1] = Trim(InputPairs(call.input)[k][1])
              /\ ~IsHalf(InputPairs(call.input)[k][2]) =>
                   LoadedPairs(loaded)[k][2] = InputPairs(call.input)[k][2]
         /\ OwnGeneratedIds(loaded)

\* A rubric saved with the weights 50.5 and 49.5 is stored with weights that
\* are integers
C22_FractionLost ==
  /\ SavedValidInput
  /\ call.result.ok
  /\ \E k \in 1..Len(call.input.criteria.v) : IsHalf(InputPairs(call.input)[k][2])
  /\ \A c \in rubric_criteria : c.weight \in Int

(***************************************************************************)
(* C23.  listRubrics of the DuckDB store returns every stored rubric       *)
(* exactly once, and a rubric saved later comes before every rubric saved  *)
(* earlier.  The ids are numbered as they are generated, so of two stored  *)
(* rubrics the one with the greater id was saved later.                    *)
(***************************************************************************)
EveryRubricOnce(listed) ==
  /\ Len(listed) = Cardinality(rubrics)
  /\ {listed[k].id : k \in 1..Len(listed)} = {r.id : r \in rubrics}

C23_NewestFirst ==
  DirectCall("listRubrics") =>
    /\ EveryRubricOnce(call.result.value)
    /\ \A i, j \in 1..Len(call.result.value) :
         i < j => call.result.value[i].id > call.result.value[j].id

\* What the code gives: every stored rubric once, by creation time, the
\* later time first
C23_LatestTimeFirst ==
  DirectCall("listRubrics") =>
    /\ EveryRubricOnce(call.result.value)
    /\ \A i, j \in 1..Len(call.result.value) :
         i < j => call.result.value[i].createdAt >= call.result.value[j].createdAt

\* Two rubrics saved in the same millisecond are listed with the one saved
\* first in front
C23_TieListedOldestFirst ==
  /\ DirectCall("listRubrics")
  /\ Len(call.result.value) = 2
  /\ call.result.value[1].id < call.result.value[2].id
  /\ call.result.value[1].createdAt = call.result.value[2].createdAt

(***************************************************************************)
(* C24.  When a call of saveRubric has inserted the rubric row and the     *)
(* insertion of its criteria fails, the call reports the failure and the   *)
(* rows of both tables are as they were before the call; no rubric row of  *)
(* the call without criteria remains.                                      *)
(***************************************************************************)
WithoutCriteria(r) == \A c \in rubric_criteria : c.rubric_id # r.id

C24_RollbackOnCriteriaFailure ==
  [][call'.fn = "saveRubric" /\ call'.failed = "criteria" =>
       /\ ~call'.result.ok
       /\ StoreUnchanged]_vars

\* The same for the DuckDB store alone, whose statements run in a transaction
C24_TransactionRollback ==
  [][call'.route = "none" /\ call'.fn = "saveRubric" /\ call'.failed = "criteria" =>
       /\ ~call'.result.ok
       /\ StoreUnchanged]_vars

\* A call of saveRubric of the Supabase store has failed at its criteria and
\* its rubric row is stored, without criteria
C24_RubricLeftBehind ==
  /\ call.route = "POST /api/rubrics"
  /\ call.fn = "saveRubric"
  /\ call.failed = "criteria"
  /\ call.status = 400
  /\ \E r \in rubrics : r.id = uuids /\ WithoutCriteria(r)

\* A call of saveRubric of the Supabase store has failed at its criteria and
\* its rubric row is deleted again
C24_RubricDeletedAgain ==
  /\ call.route = "POST /api/rubrics"
  /\ call.fn = "saveRubric"
  /\ call.failed = "criteria"
  /\ rubrics = {}
  /\ uuids = 1

(***************************************************************************)
(* C25.  For two distinct users A and B, a call of listRubrics,            *)
(* getRubricById, updateRubric or deleteRubric made through a route with   *)
(* B's access token returns no rubric that A owns and leaves A's rubric    *)
(* rows and A's criteria rows as they were; and a request of a rubric      *)
(* route that carries no Bearer token is answered 401 without a call of    *)
(* the store.                                                              *)
(***************************************************************************)
Users == {"user-a", "user-b"}
TokenHeader(user) == IF user = "user-a" THEN JStr("Bearer token-a") ELSE JStr("Bearer token-b")
CarriesBearerToken(header) ==
  IsString(header) /\ Len(header.v) > 7 /\ SubSeq(header.v, 1, 7) = "Bearer "
RowsOf(rows, user) == {r \in rows : r.user_id = user}
CriteriaOf(rows, criteria, user) ==
  {c \in criteria : \E r \in RowsOf(rows, user) : r.id = c.rubric_id}
\* The ids of the rubrics that a call has returned
ReturnedIds(c) ==
  IF ~c.result.ok THEN {}
  ELSE IF c.fn = "listRubrics" THEN {c.result.value[k].id : k \in 1..Len(c.result.value)}
  ELSE IF c.fn \in {"getRubricById", "updateRubric", "saveRubric"} THEN {c.result.value.id}
  ELSE {}

C25_PerUserIsolation ==
  [][call'.route # "none" =>
       /\ \A a, b \in Users :
            (/\ a # b
             /\ call'.header = TokenHeader(b)
             /\ call'.fn \in {"listRubrics", "getRubricById", "updateRubric", "deleteRubric"}) =>
              /\ ReturnedIds(call') \cap {r.id : r \in RowsOf(rubrics, a)} = {}
              /\ RowsOf(rubrics', a) = RowsOf(rubrics, a)
              /\ CriteriaOf(rubrics', rubric_criteria', a) = CriteriaOf(rubrics, rubric_criteria, a)
       /\ ~CarriesBearerToken(call'.header) =>
            /\ call'.status = 401
            /\ call'.fn = "none"
            /\ StoreUnchanged]_vars

\* User B has asked to update the stored rubric of user A with a valid
\* input; the call has failed and the rubric is as user A saved it
C25_Witness ==
  /\ call.route = "PUT /api/rubrics/[id]"
  /\ call.header = TokenHeader("user-b")
  /\ call.fn = "updateRubric"
  /\ ~DefectiveInput(call.input)
  /\ ~call.result.ok
  /\ call.status = 400
  /\ \E r \in RowsOf(rubrics, "user-a") :
       /\ r.id = call.id
       /\ r.name # Trim(call.input.name.v)
       /\ ~WithoutCriteria(r)

(***************************************************************************)
(* C30.  In the Supabase store, whatever calls of saveRubric, updateRubric *)
(* and deleteRubric came before and whichever of their database steps      *)
(* failed, every stored rubric has at least one criterion and criteria     *)
(* weights that sum to 100; and a call of updateRubric that fails leaves   *)
(* the name, the description and the criteria of its rubric as they were.  *)
(***************************************************************************)
CriteriaRowsOf(criteria, id) == {c \in criteria : c.rubric_id = id}
RECURSIVE SumOfWeights(_)
SumOfWeights(rows) ==
  IF rows = {} THEN 0
  ELSE LET c == CHOOSE x \in rows : TRUE IN c.weight + SumOfWeights(rows \ {c})
WellFormedRubric(r) ==
  /\ CriteriaRowsOf(rubric_criteria, r.id) # {}
  /\ SumOfWeights(CriteriaRowsOf(rubric_criteria, r.id)) = 100

C30_StoredRubricInvariant ==
  /\ [](backend = "supabase" => \A r \in rubrics : WellFormedRubric(r))
  /\ [][call'.fn = "updateRubric" /\ ~call'.result.ok =>
          \A r \in rubrics : r.id = call'.id =>
            /\ \E kept \in rubrics' :
                 kept.id = r.id /\ kept.name = r.name /\ kept.description = r.description
            /\ CriteriaRowsOf(rubric_criteria', r.id) = CriteriaRowsOf(rubric_criteria, r.id)]_vars

\* What the code keeps: the criteria of a stored rubric, when it has any, are
\* those of one valid input, so their weights sum to 100; and a call of
\* updateRubric that fails before its first write changes nothing
C30_CriteriaOfOneInput ==
  /\ [](backend = "supabase" =>
          \A r \in rubrics : WithoutCriteria(r) \/ WellFormedRubric(r))
  /\ [][call'.fn = "updateRubric" /\ call'.failed \in {"validation", "auth", "rubric"} =>
          StoreUnchanged]_vars

\* The owner has asked to update a stored rubric with the weights 150 and
\* -50, which sum to 100: the insert of the criteria has failed, and the
\* rubric is stored under its new name without criteria
C30_UpdateLeftNoCriteria ==
  /\ call.fn = "updateRubric"
  /\ call.failed = "criteria"
  /\ call.input.name = JStr("Bonus")
  /\ \E r \in rubrics : r.id = call.id /\ r.name = "Bonus" /\ WithoutCriteria(r)

\* The delete of the criteria of an update has failed, and the rubric is
\* stored under its new name with its old criteria
C30_UpdateRenamedOnly ==
  /\ call.fn = "updateRubric"
  /\ call.failed = "delete"
  /\ \E r \in rubrics :
       /\ r.id = call.id
       /\ r.name = Trim(call.input.name.v)
       /\ {c.label : c \in CriteriaRowsOf(rubric_criteria, r.id)} = {"Only"}
       /\ r.name = "Grant rubric"


====
